---- MODULE Spec2Model ----
(***************************************************************************)
(* Model of the mikola tour-booking application: the in-memory user, tour, *)
(* booking and feedback stores, the event source behind the catalog, the   *)
(* per-client session, and the request handlers of blueprints/public.py,   *)
(* blueprints/auth.py and blueprints/admin.py that read and write them.    *)
(* One action is one HTTP request handled to completion (requests are      *)
(* serialized); Tick is the passage of one calendar day.                   *)
(***************************************************************************)
EXTENDS Integers, Sequences, FiniteSets, TLC

VARIABLES today,          \* datetime.now().date()
          clockTicks,     \* days elapsed since the process started
          tours,          \* ToursRepository._tours
          users,          \* UserRepository._users
          userNextId,     \* UserRepository._next_id
          bookings,       \* BookingRepository._bookings
          bookingNextId,  \* BookingRepository._next_id
          session,        \* the signed-cookie session of each client
          response,       \* the answer to the last request
          feedback,       \* FeedbackRepository._feedback
          feedbackNextId, \* FeedbackRepository._next_id
          fetched,        \* the list fetch_events returned last
          threads,        \* the request each server thread is handling
          overlapped      \* history: a request began during another one

vars == <<today, clockTicks, threads, overlapped, tours, users, userNextId, bookings,
          bookingNextId, session, response, feedback, feedbackNextId,
          fetched>>

(***************************************************************************)
(* Bounds of the model.                                                    *)
(***************************************************************************)
MaxUsers == 2        \* registrations accepted on top of the seeded admin
MaxBookings == 2     \* bookings created in one behaviour
MaxTicks == 1        \* days the clock may advance in one behaviour
MaxFeedback == 2     \* feedback records created in one behaviour

(***************************************************************************)
(* Optional values (Python None / a missing form field or session key).    *)
(***************************************************************************)
None == <<>>
Some(x) == <<x>>
IsNone(o) == o = <<>>
Val(o) == o[1]

(***************************************************************************)
(* Calendar: datetime.date as a record [y, m, d].                          *)
(***************************************************************************)
Date(y, m, d) == [y |-> y, m |-> m, d |-> d]

IsLeap(y) == (y % 4 = 0 /\ y % 100 # 0) \/ y % 400 = 0

DaysInMonth(y, m) ==
    IF m = 2 THEN (IF IsLeap(y) THEN 29 ELSE 28)
    ELSE IF m \in {4, 6, 9, 11} THEN 30 ELSE 31

ValidDate(y, m, d) ==
    /\ y \in 1..9999
    /\ m \in 1..12
    /\ d \in 1..DaysInMonth(y, m)

\* date.__lt__ / __le__: comparison of (year, month, day)
DateLT(a, b) ==
    \/ a.y < b.y
    \/ a.y = b.y /\ a.m < b.m
    \/ a.y = b.y /\ a.m = b.m /\ a.d < b.d

DateLE(a, b) == a = b \/ DateLT(a, b)

\* date.replace(year=, month=, day=): None stands for the ValueError raised
\* when the fields do not name a calendar date
Replace(y, m, d) == IF ValidDate(y, m, d) THEN Some(Date(y, m, d)) ELSE None

\* date + timedelta(days = n)
RECURSIVE AddDays(_, _)
AddDays(dt, n) ==
    IF n = 0 THEN dt
    ELSE IF n > 0 THEN
        IF dt.d + n <= DaysInMonth(dt.y, dt.m)
        THEN Date(dt.y, dt.m, dt.d + n)
        ELSE AddDays(IF dt.m = 12 THEN Date(dt.y + 1, 1, 1)
                                  ELSE Date(dt.y, dt.m + 1, 1),
                     n - (DaysInMonth(dt.y, dt.m) - dt.d + 1))
    ELSE
        IF dt.d + n >= 1
        THEN Date(dt.y, dt.m, dt.d + n)
        ELSE AddDays(IF dt.m = 1 THEN Date(dt.y - 1, 12, 31)
                                 ELSE Date(dt.y, dt.m - 1,
                                           DaysInMonth(dt.y, dt.m - 1)),
                     n + dt.d)

\* datetime.strptime(text, "%Y-%m-%d").date(): the text is held as its
\* numeric fields, <<>> being the empty or missing field; None stands for
\* ValueError
Strptime(text) ==
    IF Len(text) = 3 /\ ValidDate(text[1], text[2], text[3])
    THEN Some(Date(text[1], text[2], text[3]))
    ELSE None

\* strftime("%Y-%m-%d") of a date
Strftime(dt) == <<dt.y, dt.m, dt.d>>

(***************************************************************************)
(* int(text): optional sign followed by decimal digits; None stands for    *)
(* ValueError.  The text is a sequence of characters.                      *)
(***************************************************************************)
Digits == {"0", "1", "2", "3", "4", "5", "6", "7", "8", "9"}

DigitVal(c) ==
    CASE c = "0" -> 0 [] c = "1" -> 1 [] c = "2" -> 2 [] c = "3" -> 3
      [] c = "4" -> 4 [] c = "5" -> 5 [] c = "6" -> 6 [] c = "7" -> 7
      [] c = "8" -> 8 [] c = "9" -> 9

RECURSIVE DigitsValue(_)
DigitsValue(ds) ==
    IF ds = <<>> THEN 0
    ELSE 10 * DigitsValue(SubSeq(ds, 1, Len(ds) - 1)) + DigitVal(ds[Len(ds)])

IntParse(text) ==
    LET signed == text # <<>> /\ text[1] \in {"-", "+"}
        ds == IF signed THEN Tail(text) ELSE text
    IN  IF ds # <<>> /\ \A i \in 1..Len(ds) : ds[i] \in Digits
        THEN Some(IF signed /\ text[1] = "-" THEN 0 - DigitsValue(ds)
                                             ELSE DigitsValue(ds))
        ELSE None

(***************************************************************************)
(* Texts that are searched are sequences of characters.  str.lower() maps  *)
(* the capital letters to the small ones; `needle in hay` is Contains.     *)
(***************************************************************************)
Capitals ==
    <<"A", "B", "C", "D", "E", "F", "G", "H", "I", "J", "K", "L", "M",
      "N", "O", "P", "Q", "R", "S", "T", "U", "V", "W", "X", "Y", "Z">>

Smalls ==
    <<"a", "b", "c", "d", "e", "f", "g", "h", "i", "j", "k", "l", "m",
      "n", "o", "p", "q", "r", "s", "t", "u", "v", "w", "x", "y", "z">>

lower(text) ==
    [i \in 1..Len(text) |->
        IF \E k \in 1..Len(Capitals) : Capitals[k] = text[i]
        THEN Smalls[CHOOSE k \in 1..Len(Capitals) : Capitals[k] = text[i]]
        ELSE text[i]]

Contains(needle, hay) ==
    \E i \in 0..(Len(hay) - Len(needle)) :
        SubSeq(hay, i + 1, i + Len(needle)) = needle

(***************************************************************************)
(* Event source (services/ticketmaster_service.py).  An event is the       *)
(* normalized dict, reduced to the keys the catalog reads.                 *)
(***************************************************************************)
Event(id, name, city, country, classification, duration_days, description, pmin, pmax, start) ==
    [id |-> id, name |-> name, city |-> city, country |-> country,
     classification |-> classification, duration_days |-> duration_days,
     description |-> description,
     price_min |-> pmin, price_max |-> pmax, start_date |-> start]

\* the static fallback list, shortened to its first two entries and to
\* short transliterated texts
_mock_events ==
    << Event("ALTAI2026BEL", <<"A", "l", "t", "a", "i">>,
             <<"G", "o", "r", "n", "o">>, <<"R", "u", "s">>,
             <<"m", "o", "u", "n", "t">>, 11, <<"T", "r", "e", "k">>,
             Some(1190), Some(1490), <<2026, 6, 14>>),
       Event("SVANETI2026GEO", <<"S", "v", "a", "n">>,
             <<"M", "e", "s", "t", "i", "a">>, <<"G", "e", "o">>,
             <<"m", "o", "u", "n", "t">>, 9, <<"t", "r", "e", "k">>,
             Some(980), Some(1280), <<2026, 7, 2>>) >>

\* upstream results after _normalize_event: a free event with a price
\* range, an event without price ranges and without a date, an event that
\* starts too soon; an event with only an upper price
UpstreamA ==
    << Event("TM-FREE", <<"F", "a", "i", "r">>, <<"R", "i", "o">>,
             <<"B", "r">>, <<"M", "u", "s", "i", "c">>, 1, <<>>,
             Some(0), Some(50), <<2028, 6, 1>>),
       Event("TM-NOPRICE", <<"G", "i", "g">>, <<>>, <<>>,
             <<"e", "x", "p">>, 1, <<>>, None, None, None),
       Event("TM-SOON", <<"R", "u", "n">>, <<"R", "i", "o">>,
             <<"B", "r">>, <<"S", "p", "o", "r", "t">>, 2, <<>>,
             Some(20), Some(20), <<2027, 3, 20>>) >>

UpstreamB ==
    << Event("TM-MAXONLY", <<"T", "o", "u", "r">>, <<"O", "s", "l", "o">>,
             <<"N", "o">>, <<"m", "u", "s", "i", "c">>, 1, <<>>,
             None, Some(30), None) >>

\* upstream results with start dates around the lead time of a process
\* started on 2027-03-10: 30 days ahead, 29 days ahead, a date that is not
\* on the calendar, 31 days ahead
UpstreamC ==
    << Event("TM-EDGE", <<"E", "x", "p", "o">>, <<"R", "i", "o">>,
             <<"B", "r">>, <<"a", "r", "t", "s">>, 1, <<>>,
             Some(10), Some(10), <<2027, 4, 9>>),
       Event("TM-EARLY", <<"S", "h", "o", "w">>, <<"R", "i", "o">>,
             <<"B", "r">>, <<"a", "r", "t", "s">>, 1, <<>>,
             Some(15), None, <<2027, 4, 8>>),
       Event("TM-BADDATE", <<"J", "a", "m">>, <<>>, <<>>,
             <<"m", "u", "s", "i", "c">>, 1, <<>>,
             None, None, <<2027, 2, 30>>),
       Event("TM-LATER", <<"G", "a", "l", "a">>, <<"O", "s", "l", "o">>,
             <<"N", "o">>, <<"a", "r", "t", "s">>, 0, <<>>,
             Some(25), Some(40), <<2027, 4, 10>>) >>

\* what the HTTP request and the parsing of its payload came to: an
\* exception, or the list of normalized events (empty when the payload
\* carries none)
Raised == [raised |-> TRUE, events |-> <<>>]
Returned(events) == [raised |-> FALSE, events |-> events]

\* variant: an empty upstream result is returned as it is
normalized_or_mock_events_as_is(normalized) == normalized

\* normalized or self._mock_events()
normalized_or_mock_events(normalized) ==
    IF normalized # <<>> THEN normalized ELSE _mock_events

fetch_events(api_key, upstream) ==
    IF api_key = "" THEN _mock_events
    ELSE IF upstream.raised THEN _mock_events
    ELSE normalized_or_mock_events(upstream.events)

(***************************************************************************)
(* Tour catalog (repository/tours_repo.py).                                *)
(***************************************************************************)
\* Python truthiness of an optional number: None and 0 are falsy
Truthy(o) == ~IsNone(o) /\ Val(o) # 0

\* the paragraphs of the description, joined by "/": the event's own text,
\* "@" for the schedule line, "$" for the price line, "-" for the
\* placeholder of an event that has none of them (the venue, genre and url
\* lines are left out with the keys they print)
_compose_description(event) ==
    LET base == IF event.description # <<>> THEN <<event.description>>
                ELSE <<>>
        schedule == IF event.start_date # <<>> THEN <<(<<"@">>)>> ELSE <<>>
        price == IF ~IsNone(event.price_min) \/ ~IsNone(event.price_max)
                 THEN <<(<<"$">>)>> ELSE <<>>
        details == base \o schedule \o price
        J[i \in 1..Len(details)] ==
            IF i = 1 THEN details[1] ELSE J[i - 1] \o <<"/">> \o details[i]
    IN  IF details = <<>> THEN <<"-">> ELSE J[Len(details)]

_map_events(events) ==
    [idx \in 1..Len(events) |->
        LET event == events[idx]
            price_anchor ==
                IF Truthy(event.price_min) THEN Val(event.price_min)
                ELSE IF Truthy(event.price_max) THEN Val(event.price_max)
                ELSE 0
        IN  [id |-> idx,
             title |-> event.name,
             description |-> _compose_description(event),
             price |-> price_anchor,
             city |-> event.city,
             country |-> event.country,
             type |-> event.classification,
             duration_days |->
                 IF event.duration_days # 0 THEN event.duration_days ELSE 1,
             min_price |-> event.price_min,
             max_price |-> event.price_max,
             external_id |-> event.id,
             start_date |-> event.start_date]]

_MIN_LEAD_DAYS == 30

\* variant: an emptied list stays empty
filtered_or_tours_emptied(filtered, ts) == filtered

\* return filtered or tours
filtered_or_tours(filtered, ts) == IF filtered # <<>> THEN filtered ELSE ts

\* variant: a tour that starts on the threshold day is dropped
starts_late_enough_strictly(start_date, threshold) ==
    DateLT(threshold, start_date)

\* start_date >= threshold
starts_late_enough(start_date, threshold) == DateLE(threshold, start_date)

_filter_future_ready(ts, now) ==
    LET threshold == AddDays(now, _MIN_LEAD_DAYS)
        keep(tour) ==
            \/ tour.start_date = <<>>
            \/ IsNone(Strptime(tour.start_date))
            \/ starts_late_enough(Val(Strptime(tour.start_date)), threshold)
        F[i \in 0..Len(ts)] ==
            IF i = 0 THEN <<>>
            ELSE IF keep(ts[i]) THEN Append(F[i - 1], ts[i]) ELSE F[i - 1]
        filtered == F[Len(ts)]
    IN  IF ts = <<>> THEN ts
        ELSE filtered_or_tours(filtered, ts)

\* variant: the new tours are added to the list
sync_events_extend(current, events, now) ==
    IF events # <<>>
    THEN current \o _filter_future_ready(_map_events(events), now)
    ELSE current

\* the catalog after sync_events() received `events`
sync_events(current, events, now) ==
    IF events # <<>>
    THEN _filter_future_ready(_map_events(events), now)
    ELSE current

\* variant: the first tour stands in for an id that is not in the list
tours_get_by_id_or_first(tour_id) ==
    LET hits == {i \in 1..Len(tours) : tours[i].id = tour_id}
    IN  IF tours = <<>> THEN None
        ELSE IF hits = {} THEN Some(tours[1])
        ELSE Some(tours[CHOOSE i \in hits : \A j \in hits : i <= j])

tours_get_by_id(tour_id) ==
    LET hits == {i \in 1..Len(tours) : tours[i].id = tour_id}
    IN  IF hits = {} THEN None
        ELSE Some(tours[CHOOSE i \in hits : \A j \in hits : i <= j])

(***************************************************************************)
(* User store (repository/user_repo.py).  The password hash is a one-way   *)
(* function with a verification counterpart.                               *)
(***************************************************************************)
generate_password_hash(password) == [digest |-> password]
check_password_hash(hash, password) == hash.digest = password

AdminEmail == "admin@mikola.com"
AdminPassword == <<"a", "d", "m", "i", "n", "1", "2", "3">>

SeedUsers ==
    << [id |-> 1, email |-> AdminEmail,
        password_hash |-> generate_password_hash(AdminPassword),
        role |-> "admin"] >>

\* variant: only the first record is compared
user_get_by_email_first_only(email) ==
    IF users # <<>> /\ users[1].email = email THEN Some(users[1]) ELSE None

user_get_by_email(email) ==
    LET hits == {i \in 1..Len(users) : users[i].email = email}
    IN  IF hits = {} THEN None
        ELSE Some(users[CHOOSE i \in hits : \A j \in hits : i <= j])

(***************************************************************************)
(* Booking store (repository/booking_repo.py).                             *)
(***************************************************************************)
FirstIndex(seq, id) ==
    LET hits == {i \in 1..Len(seq) : seq[i].id = id}
    IN  IF hits = {} THEN 0 ELSE CHOOSE i \in hits : \A j \in hits : i <= j

booking_get_by_id(booking_id) ==
    LET i == FirstIndex(bookings, booking_id)
    IN  IF i = 0 THEN None ELSE Some(bookings[i])

\* variant: cancelling removes the record
repo_cancel_booking_delete(store, booking_id) ==
    LET i == FirstIndex(store, booking_id)
    IN  IF i = 0 THEN store
        ELSE SubSeq(store, 1, i - 1) \o SubSeq(store, i + 1, Len(store))

\* variant: cancelling flips the status
repo_cancel_booking_toggle(store, booking_id) ==
    LET i == FirstIndex(store, booking_id)
    IN  IF i = 0 THEN store
        ELSE [store EXCEPT ![i].status =
                 IF @ = "confirmed" THEN "cancelled" ELSE "confirmed"]

\* BookingRepository.cancel_booking: the store after the call
repo_cancel_booking(store, booking_id) ==
    LET i == FirstIndex(store, booking_id)
    IN  IF i = 0 THEN store
        ELSE [store EXCEPT ![i].status = "cancelled"]

(***************************************************************************)
(* Sessions and responses.  A session key that is absent is 0 / "" / None. *)
(***************************************************************************)
EmptySession ==
    [user_id |-> 0, email |-> "", role |-> "", booking_data |-> None,
     language |-> ""]

\* the query dict of GET /search; a filter left out is "" or None
Query(location, type, min_price, max_price, duration, keyword) ==
    [location |-> location, type |-> type, min_price |-> min_price,
     max_price |-> max_price, duration |-> duration, keyword |-> keyword]

NoQuery == Query(<<>>, <<>>, <<>>, <<>>, <<>>, <<>>)

Response(route, s, location, flash) ==
    [route |-> route, sess |-> s, location |-> location, flash |-> flash,
     tours |-> <<>>, query |-> NoQuery]

\* a rendered page that lists tours: render_template(..., tours=, query=)
Render(route, s, location, listed, query) ==
    response' = [Response(route, s, location, "") EXCEPT
                     !.tours = listed, !.query = query]

NoResponse == Response("", "", "", "")

Respond(route, s, location, flash) ==
    response' = Response(route, s, location, flash)

Booking(id, tour_id, user_id, booking_date, travel_date, passengers, total_price, status) ==
    [id |-> id, tour_id |-> tour_id, user_id |-> user_id,
     booking_date |-> booking_date, travel_date |-> travel_date,
     passengers |-> passengers, total_price |-> total_price,
     status |-> status]

(***************************************************************************)
(* POST /book/<tour_id>  (blueprints/public.py, book_tour)                 *)
(***************************************************************************)
\* int(request.form.get("passengers", 1)): a missing field is the int 1
passengers_of(field) ==
    IF IsNone(field) THEN Some(1) ELSE IntParse(Val(field))

\* variant: the lower limit tested as passengers < 0
passengers_in_range_from_zero(passengers) ==
    ~(passengers < 0 \/ passengers > 10)

passengers_in_range(passengers) == ~(passengers < 1 \/ passengers > 10)

\* variant: the limit taken two years ahead
max_future_date_two_years(now) == Replace(now.y + 2, now.m, now.d)

\* today.replace(year=today.year + 1)
max_future_date(now) == Replace(now.y + 1, now.m, now.d)

book_unit_price(tour) ==
    IF ~IsNone(tour.min_price) THEN Val(tour.min_price)
    ELSE IF ~IsNone(tour.max_price) THEN Val(tour.max_price)
    ELSE tour.price

\* variant: the request is treated as anonymous whoever sent it
no_user_in_session_unchecked(s) == TRUE

\* not session.get("user_id")
no_user_in_session(s) == session[s].user_id = 0

book_tour(s, tour_id, passengers_field, travel_date) ==
    LET tour == tours_get_by_id(tour_id)
        parsed == passengers_of(passengers_field)
        passengers == Val(parsed)
        travel_date_obj == Strptime(travel_date)
        limit == max_future_date(today)
        reject(flash) ==
            /\ Respond("book_tour", s, "tour_detail", flash)
            /\ UNCHANGED <<bookings, bookingNextId, session>>
    IN  /\ Len(bookings) < MaxBookings
        /\ UNCHANGED <<feedback, feedbackNextId, fetched,
                       today, clockTicks, threads, overlapped, tours, users, userNextId>>
        /\ IF IsNone(tour) THEN
               /\ Respond("book_tour", s, "404", "")
               /\ UNCHANGED <<bookings, bookingNextId, session>>
           ELSE IF IsNone(parsed) THEN reject("passengers_invalid")
           ELSE IF ~passengers_in_range(passengers) THEN
               reject("passengers_range")
           ELSE IF travel_date = <<>> THEN reject("date_missing")
           ELSE IF IsNone(travel_date_obj) THEN reject("date_format")
           ELSE IF DateLT(Val(travel_date_obj), today) THEN
               reject("date_past")
           ELSE IF IsNone(limit) THEN reject("date_format")
           ELSE IF DateLT(Val(limit), Val(travel_date_obj)) THEN
               reject("date_too_far")
           ELSE IF no_user_in_session(s) THEN
               /\ session' = [session EXCEPT ![s].booking_data =
                      Some([tour_id |-> tour_id,
                            travel_date |-> travel_date,
                            passengers |-> passengers])]
               /\ Respond("book_tour", s, "register", "need_registration")
               /\ UNCHANGED <<bookings, bookingNextId>>
           ELSE
               /\ bookingNextId' = bookingNextId + 1
               /\ bookings' = Append(bookings,
                      Booking(bookingNextId, tour_id, session[s].user_id,
                              Strftime(today), travel_date, passengers,
                              book_unit_price(Val(tour)) * passengers,
                              "confirmed"))
               /\ Respond("book_tour", s, "booking.html", "")
               /\ UNCHANGED session

(***************************************************************************)
(* POST /booking/<booking_id>/cancel  (blueprints/public.py)               *)
(***************************************************************************)
\* variant: two days of notice instead of three
min_cancel_date_two_days(now) ==
    IF now.d <= 28 THEN Replace(now.y, now.m, now.d + 2)
    ELSE Replace(now.y, now.m + 1, 3)

\* today.replace(day=today.day + 3) if today.day <= 28
\*     else today.replace(month=today.month + 1, day=3)
min_cancel_date(now) ==
    IF now.d <= 28 THEN Replace(now.y, now.m, now.d + 3)
    ELSE Replace(now.y, now.m + 1, 3)

\* variant: the owner check left out
is_owner_unchecked(booking, s) == TRUE

\* the owner check: booking.user_id != session["user_id"] rejects
is_owner(booking, s) == booking.user_id = session[s].user_id

cancel_booking(s, booking_id) ==
    LET booking == booking_get_by_id(booking_id)
        travel_date_obj == Strptime(Val(booking).travel_date)
        limit == min_cancel_date(today)
        reject(flash) ==
            /\ Respond("cancel_booking", s, "my_bookings", flash)
            /\ UNCHANGED bookings
    IN  /\ UNCHANGED <<feedback, feedbackNextId, fetched,
                       today, clockTicks, threads, overlapped, tours, users, userNextId,
                       bookingNextId, session>>
        /\ IF session[s].user_id = 0 THEN
               /\ Respond("cancel_booking", s, "login", "need_login")
               /\ UNCHANGED bookings
           ELSE IF IsNone(booking) THEN reject("not_found")
           ELSE IF ~is_owner(Val(booking), s) THEN reject("not_owner")
           ELSE IF IsNone(travel_date_obj) \/ IsNone(limit) THEN
               reject("date_error")
           ELSE IF DateLE(Val(travel_date_obj), Val(limit)) THEN
               reject("too_late")
           ELSE
               /\ bookings' = repo_cancel_booking(bookings, booking_id)
               /\ Respond("cancel_booking", s, "my_bookings", "cancelled")

(***************************************************************************)
(* POST /login, POST /register, GET /logout  (blueprints/auth.py)          *)
(***************************************************************************)
\* variant: every password verifies
check_password_any(user, password) == TRUE

\* check_password_hash(user.password_hash, password)
check_password(user, password) ==
    check_password_hash(user.password_hash, password)

\* variant: the role is taken from the admin field of the form
session_role_from_form(user, admin_mode) ==
    IF admin_mode THEN "admin" ELSE user.role

\* session["role"] = user.role
session_role(user, admin_mode) == user.role

login_post(s, email, password, admin) ==
    LET user == user_get_by_email(email)
        admin_mode == admin = Some("1")
    IN  /\ UNCHANGED <<feedback, feedbackNextId, fetched,
                       today, clockTicks, threads, overlapped, tours, users, userNextId,
                       bookings, bookingNextId>>
        /\ IF ~IsNone(user) /\ IsNone(password) THEN
               \* hashing None raises AttributeError: the request fails
               /\ Respond("login_post", s, "500", "")
               /\ UNCHANGED session
           ELSE IF ~IsNone(user) /\ check_password(Val(user), Val(password))
           THEN
               /\ session' = [session EXCEPT
                      ![s].user_id = Val(user).id,
                      ![s].email = Val(user).email,
                      ![s].role = session_role(Val(user), admin_mode)]
               /\ Respond("login_post", s,
                          IF admin_mode /\ Val(user).role = "admin"
                          THEN "admin_dashboard" ELSE "home",
                          "login_ok")
           ELSE
               /\ Respond("login_post", s, "login", "bad_credentials")
               /\ UNCHANGED session

\* variant: the minimum length tested as len(password) < 5
password_too_short_by_one(password) == Len(password) < 5

\* len(password) < 6
password_too_short(password) == Len(password) < 6

\* the price the deferred path charges per passenger
register_unit_price(tour) == tour.price

register_post(s, email, password, confirm_password) ==
    LET new_id == userNextId
        user == [id |-> new_id, email |-> email,
                 password_hash |-> generate_password_hash(Val(password)),
                 role |-> "client"]
        booking_data == session[s].booking_data
        data == Val(booking_data)
        travel_date_obj == Strptime(data.travel_date)
        limit == max_future_date(today)
        tour == tours_get_by_id(data.tour_id)
        reject(flash) ==
            /\ Respond("register_post", s, "register", flash)
            /\ UNCHANGED <<users, userNextId, bookings, bookingNextId,
                           session>>
        \* the user is stored, the pending booking is dropped
        drop(flash) ==
            /\ session' = [session EXCEPT ![s].booking_data = None]
            /\ Respond("register_post", s, "home", flash)
            /\ UNCHANGED <<bookings, bookingNextId>>
        logged_in == [session[s] EXCEPT !.user_id = user.id,
                                        !.email = user.email,
                                        !.role = user.role]
    IN  /\ Len(users) < MaxUsers + 1
        /\ IsNone(session[s].booking_data) \/ Len(bookings) < MaxBookings
        /\ UNCHANGED <<feedback, feedbackNextId, fetched,
                       today, clockTicks, threads, overlapped, tours>>
        /\ IF password # confirm_password THEN reject("password_mismatch")
           ELSE IF IsNone(password) THEN
               \* len(None) raises TypeError: the request fails
               /\ Respond("register_post", s, "500", "")
               /\ UNCHANGED <<users, userNextId, bookings, bookingNextId,
                              session>>
           ELSE IF password_too_short(Val(password)) THEN
               reject("password_short")
           ELSE IF ~IsNone(user_get_by_email(email)) THEN
               reject("email_taken")
           ELSE
               /\ userNextId' = userNextId + 1
               /\ users' = Append(users, user)
               /\ IF IsNone(booking_data) THEN
                      /\ Respond("register_post", s, "login", "registered")
                      /\ UNCHANGED <<bookings, bookingNextId, session>>
                  ELSE IF IsNone(travel_date_obj) THEN drop("booking_invalid")
                  ELSE IF DateLT(Val(travel_date_obj), today) THEN
                      drop("date_past")
                  ELSE IF IsNone(limit) THEN drop("booking_invalid")
                  ELSE IF DateLT(Val(limit), Val(travel_date_obj)) THEN
                      drop("date_too_far")
                  ELSE IF ~IsNone(tour) THEN
                      /\ bookingNextId' = bookingNextId + 1
                      /\ bookings' = Append(bookings,
                             Booking(bookingNextId, data.tour_id, user.id,
                                     Strftime(today), data.travel_date,
                                     data.passengers,
                                     register_unit_price(Val(tour))
                                         * data.passengers,
                                     "confirmed"))
                      /\ session' = [session EXCEPT ![s] =
                             [logged_in EXCEPT !.booking_data = None]]
                      /\ Respond("register_post", s, "booking_confirmation",
                                 "registered_and_booked")
                  ELSE
                      /\ session' = [session EXCEPT ![s] = logged_in]
                      /\ Respond("register_post", s, "login", "registered")
                      /\ UNCHANGED <<bookings, bookingNextId>>

\* variant: only the identity keys are removed
session_clear_identity_only(sess) ==
    [sess EXCEPT !.user_id = 0, !.email = "", !.role = ""]

\* session.clear(): no key is left
session_clear(sess) == EmptySession

logout(s) ==
    /\ session' = [session EXCEPT ![s] = session_clear(session[s])]
    /\ Respond("logout", s, "home", "logged_out")
    /\ UNCHANGED <<feedback, feedbackNextId, fetched,
                   today, clockTicks, threads, overlapped, tours, users, userNextId, bookings,
                   bookingNextId>>

(***************************************************************************)
(* GET /set_language/<language>  (blueprints/public.py)                    *)
(***************************************************************************)
\* variant: every language code is taken
language_supported_any(language) == TRUE

\* language in ['ru', 'en', 'es']
language_supported(language) == language \in {"ru", "en", "es"}

\* the answer is redirect(request.referrer or url_for('public.home'))
set_language(s, language) ==
    /\ IF language_supported(language)
       THEN session' = [session EXCEPT ![s].language = language]
       ELSE UNCHANGED session
    /\ Respond("set_language", s, "referrer_or_home", "")
    /\ UNCHANGED <<today, clockTicks, threads, overlapped, tours, users, userNextId, bookings,
                   bookingNextId, feedback, feedbackNextId, fetched>>

(***************************************************************************)
(* GET /search: ToursRepository.search refreshes the catalog from the      *)
(* event source, then filters it.  Prices are whole numbers here.          *)
(***************************************************************************)
\* variant: the upper price bound taken as exclusive
within_max_price_exclusive(t, max_price) ==
    (IF t.price # 0 THEN t.price ELSE 0) < max_price

\* (t.price or 0) <= max_price
within_max_price(t, max_price) ==
    (IF t.price # 0 THEN t.price ELSE 0) <= max_price

\* the list ToursRepository.search returns over the refreshed catalog
tours_search(catalog, location, type, min_price, max_price, duration, keyword) ==
    LET loc == lower(location)
        kw == lower(keyword)
        q1 == IF location # <<>>
              THEN SelectSeq(catalog, LAMBDA t :
                       \/ Contains(loc, lower(t.city))
                       \/ Contains(loc, lower(t.country)))
              ELSE catalog
        q2 == IF type # <<>>
              THEN SelectSeq(q1, LAMBDA t : lower(t.type) = lower(type))
              ELSE q1
        q3 == IF ~IsNone(min_price)
              THEN SelectSeq(q2, LAMBDA t :
                       (IF t.price # 0 THEN t.price ELSE 0) >= Val(min_price))
              ELSE q2
        q4 == IF ~IsNone(max_price)
              THEN SelectSeq(q3, LAMBDA t :
                       within_max_price(t, Val(max_price)))
              ELSE q3
        q5 == IF ~IsNone(duration)
              THEN SelectSeq(q4, LAMBDA t : t.duration_days = Val(duration))
              ELSE q4
    IN  IF keyword # <<>>
        THEN SelectSeq(q5, LAMBDA t :
                 \/ Contains(kw, lower(t.title))
                 \/ Contains(kw, lower(t.description)))
        ELSE q5

\* request.args.get(name, ""): the text, "" for an argument left out
arg_text(field) == IF IsNone(field) THEN <<>> ELSE Val(field)

\* request.args.get(name, type=...): the number, None for an argument left
\* out or one that does not convert
arg_number(field) == IF IsNone(field) THEN None ELSE IntParse(Val(field))

\* a query string: every argument is optional
Args(location, type, min_price, max_price, duration, keyword) ==
    [location |-> location, type |-> type, min_price |-> min_price,
     max_price |-> max_price, duration |-> duration, keyword |-> keyword]

NoArgs == Args(None, None, None, None, None, None)

search(s, api_key, upstream, args) ==
    LET query == Query(arg_text(args.location), arg_text(args.type),
                       arg_number(args.min_price),
                       arg_number(args.max_price),
                       arg_number(args.duration), arg_text(args.keyword))
        events == fetch_events(api_key, upstream)
        catalog == sync_events(tours, events, today)
    IN  /\ fetched' = events
        /\ tours' = catalog
        /\ Render("search", s, "search.html",
                  tours_search(catalog, query.location, query.type,
                               query.min_price, query.max_price,
                               query.duration, query.keyword),
                  query)
        /\ UNCHANGED <<today, clockTicks, threads, overlapped, users, userNextId, bookings,
                       bookingNextId, session, feedback, feedbackNextId>>

\* ToursRepository.sync_events() on its own, the event source answering
\* with `events`
tours_sync_events(events) ==
    /\ fetched' = events
    /\ tours' = sync_events(tours, events, today)
    /\ Respond("sync_events", "", "", "")
    /\ UNCHANGED <<today, clockTicks, threads, overlapped, users, userNextId, bookings,
                   bookingNextId, session, feedback, feedbackNextId>>

(***************************************************************************)
(* Feedback store (repository/feedback_repo.py).  A form text is a         *)
(* sequence of runs of one character; timestamps are kept to the day.      *)
(***************************************************************************)
Run(ch, n) == [ch |-> ch, n |-> n]

Whitespace == {" ", "\t", "\n"}

\* str.strip(): the text without its leading and trailing whitespace
strip(text) ==
    LET inked == {i \in 1..Len(text) :
                     text[i].ch \notin Whitespace /\ text[i].n > 0}
    IN  IF inked = {} THEN <<>>
        ELSE SubSeq(text, CHOOSE i \in inked : \A j \in inked : i <= j,
                          CHOOSE i \in inked : \A j \in inked : j <= i)

\* len(text)
len(text) ==
    LET S[i \in 0..Len(text)] == IF i = 0 THEN 0 ELSE S[i - 1] + text[i].n
    IN  S[Len(text)]

Feedback(id, user_id, subject, message, created_at, status, priority, category) ==
    [id |-> id, user_id |-> user_id, subject |-> subject,
     message |-> message, created_at |-> created_at, status |-> status,
     admin_response |-> None, admin_id |-> None, responded_at |-> None,
     priority |-> priority, category |-> category]

feedback_get_by_id(feedback_id) ==
    LET i == FirstIndex(feedback, feedback_id)
    IN  IF i = 0 THEN None ELSE Some(feedback[i])

\* variant: a closed record keeps its status when it is answered
repo_respond_to_feedback_keep_closed(store, feedback_id, admin_response, admin_id, now) ==
    LET i == FirstIndex(store, feedback_id)
    IN  IF i = 0 THEN store
        ELSE [store EXCEPT ![i].admin_response = Some(admin_response),
                           ![i].admin_id = Some(admin_id),
                           ![i].responded_at = Some(Strftime(now)),
                           ![i].status =
                               IF @ = "closed" THEN @ ELSE "resolved"]

\* FeedbackRepository.respond_to_feedback: the store after the call; the
\* call returns True when the id is in the store
repo_respond_to_feedback(store, feedback_id, admin_response, admin_id, now) ==
    LET i == FirstIndex(store, feedback_id)
    IN  IF i = 0 THEN store
        ELSE [store EXCEPT ![i].admin_response = Some(admin_response),
                           ![i].admin_id = Some(admin_id),
                           ![i].responded_at = Some(Strftime(now)),
                           ![i].status = "resolved"]

\* FeedbackRepository.change_status: the store after the call
repo_change_status(store, feedback_id, new_status) ==
    LET i == FirstIndex(store, feedback_id)
    IN  IF i = 0 THEN store ELSE [store EXCEPT ![i].status = new_status]

\* FeedbackRepository.change_priority: the store after the call
repo_change_priority(store, feedback_id, new_priority) ==
    LET i == FirstIndex(store, feedback_id)
    IN  IF i = 0 THEN store ELSE [store EXCEPT ![i].priority = new_priority]

(***************************************************************************)
(* POST /feedback  (blueprints/public.py, submit_feedback)                 *)
(***************************************************************************)
\* request.form.get(name, default)
form_get(field, default) == IF IsNone(field) THEN default ELSE Val(field)

\* variant: one character more is let through
subject_too_long_by_one(subject) == len(subject) > 201

\* len(subject) > 200
subject_too_long(subject) == len(subject) > 200

\* len(message) > 2000
message_too_long(message) == len(message) > 2000

submit_feedback(s, subject_field, message_field, category_field, priority_field) ==
    LET user_id == session[s].user_id
        subject == strip(form_get(subject_field, <<>>))
        message == strip(form_get(message_field, <<>>))
        category == form_get(category_field, "general")
        priority == form_get(priority_field, "normal")
        reject(flash) ==
            /\ Respond("submit_feedback", s, "feedback_form", flash)
            /\ UNCHANGED <<feedback, feedbackNextId>>
    IN  /\ Len(feedback) < MaxFeedback
        /\ UNCHANGED <<today, clockTicks, threads, overlapped, tours, users, userNextId,
                       bookings, bookingNextId, session, fetched>>
        /\ IF user_id = 0 THEN
               /\ Respond("submit_feedback", s, "login", "need_login")
               /\ UNCHANGED <<feedback, feedbackNextId>>
           ELSE IF subject = <<>> THEN reject("subject_missing")
           ELSE IF message = <<>> THEN reject("message_missing")
           ELSE IF subject_too_long(subject) THEN reject("subject_too_long")
           ELSE IF message_too_long(message) THEN reject("message_too_long")
           ELSE
               /\ feedbackNextId' = feedbackNextId + 1
               /\ feedback' = Append(feedback,
                      Feedback(feedbackNextId, user_id, subject, message,
                               Strftime(today), "new", priority, category))
               /\ Respond("submit_feedback", s, "my_feedback", "sent")

(***************************************************************************)
(* The admin pages (blueprints/admin.py).  Every handler starts with the   *)
(* role check.                                                             *)
(***************************************************************************)
\* variant: any signed-in session passes
_is_admin_signed_in(s) == session[s].user_id # 0

\* session.get("role") == "admin"
_is_admin(s) == session[s].role = "admin"

\* redirect(url_for("auth.login")), nothing read or written
admin_refused(route, s) ==
    /\ Respond(route, s, "login", "")
    /\ UNCHANGED <<tours, fetched, feedback, feedbackNextId>>

\* a page that reads the stores and writes none
admin_page(route, s, template) ==
    /\ UNCHANGED <<today, clockTicks, threads, overlapped, users, userNextId, bookings,
                   bookingNextId, session>>
    /\ IF ~_is_admin(s) THEN admin_refused(route, s)
       ELSE /\ Respond(route, s, template, "")
            /\ UNCHANGED <<tours, fetched, feedback, feedbackNextId>>

\* a page that lists the catalog: tours_repository.search() refreshes it
admin_tours_page(route, s, template, api_key, upstream) ==
    LET events == fetch_events(api_key, upstream)
        catalog == sync_events(tours, events, today)
    IN  /\ UNCHANGED <<today, clockTicks, threads, overlapped, users, userNextId, bookings,
                       bookingNextId, session>>
        /\ IF ~_is_admin(s) THEN admin_refused(route, s)
           ELSE /\ fetched' = events
                /\ tours' = catalog
                /\ Render(route, s, template, catalog, NoQuery)
                /\ UNCHANGED <<feedback, feedbackNextId>>

dashboard(s, api_key, upstream) ==
    admin_tours_page("dashboard", s, "admin/dashboard.html", api_key, upstream)

add_form(s) == admin_page("add_form", s, "admin/add_tour.html")

\* the fields of the tour forms that the model varies
TourForm(title, price, duration_days) ==
    [title |-> title, price |-> price, duration_days |-> duration_days]

add_tour(s, api_key, upstream, form) ==
    LET events == fetch_events(api_key, upstream)
        catalog == sync_events(tours, events, today)
        ids == {catalog[i].id : i \in 1..Len(catalog)}
        new_id == (IF ids = {} THEN 0
                   ELSE CHOOSE m \in ids : \A k \in ids : k <= m) + 1
        \* float(form.get("price", 0) or 0)
        price == IF IsNone(form.price) \/ Val(form.price) = <<>> THEN Some(0)
                 ELSE IntParse(Val(form.price))
        \* int(form.get("duration_days", 1) or 1)
        duration_days ==
            IF IsNone(form.duration_days) \/ Val(form.duration_days) = <<>>
            THEN Some(1) ELSE IntParse(Val(form.duration_days))
        tour == [id |-> new_id,
                 title |-> form_get(form.title, <<"N", "e", "w">>),
                 description |-> <<>>,
                 price |-> Val(price),
                 city |-> <<>>, country |-> <<>>,
                 type |-> <<"c", "i", "t", "y">>,
                 duration_days |-> Val(duration_days),
                 min_price |-> None, max_price |-> None,
                 \* Tour.external_id defaults to None: the absent id is ""
                 external_id |-> "", start_date |-> None]
    IN  /\ UNCHANGED <<today, clockTicks, threads, overlapped, users, userNextId, bookings,
                       bookingNextId, session>>
        /\ IF ~_is_admin(s) THEN admin_refused("add_tour", s)
           ELSE /\ fetched' = events
                /\ UNCHANGED <<feedback, feedbackNextId>>
                /\ IF IsNone(price) \/ IsNone(duration_days) THEN
                       \* ValueError is not caught: the request fails
                       /\ tours' = catalog
                       /\ Respond("add_tour", s, "500", "")
                   ELSE
                       /\ tours' = Append(catalog, tour)
                       /\ Respond("add_tour", s, "admin_dashboard", "")

\* the sort key of the feedback page looks every priority up in a dict of
\* the four known ones: KeyError for any other
feedback_management(s) ==
    /\ UNCHANGED <<today, clockTicks, threads, overlapped, users, userNextId, bookings,
                   bookingNextId, session>>
    /\ IF ~_is_admin(s) THEN admin_refused("feedback_management", s)
       ELSE /\ UNCHANGED <<tours, fetched, feedback, feedbackNextId>>
            /\ IF \E i \in 1..Len(feedback) :
                      feedback[i].priority
                          \notin {"urgent", "high", "normal", "low"}
               THEN Respond("feedback_management", s, "500", "")
               ELSE Respond("feedback_management", s,
                            "admin/feedback.html", "")

view_feedback(s, feedback_id) ==
    /\ UNCHANGED <<today, clockTicks, threads, overlapped, users, userNextId, bookings,
                   bookingNextId, session>>
    /\ IF ~_is_admin(s) THEN admin_refused("view_feedback", s)
       ELSE /\ UNCHANGED <<tours, fetched, feedback, feedbackNextId>>
            /\ IF IsNone(feedback_get_by_id(feedback_id))
               THEN Respond("view_feedback", s, "feedback_management",
                            "not_found")
               ELSE Respond("view_feedback", s, "admin/view_feedback.html",
                            "")

respond_to_feedback(s, feedback_id, response_field) ==
    LET admin_response == strip(form_get(response_field, <<>>))
        reject(location, flash) ==
            /\ Respond("respond_to_feedback", s, location, flash)
            /\ UNCHANGED feedback
    IN  /\ UNCHANGED <<today, clockTicks, threads, overlapped, users, userNextId, bookings,
                       bookingNextId, session>>
        /\ IF ~_is_admin(s) THEN admin_refused("respond_to_feedback", s)
           ELSE /\ UNCHANGED <<tours, fetched, feedbackNextId>>
                /\ IF IsNone(feedback_get_by_id(feedback_id)) THEN
                       reject("feedback_management", "not_found")
                   ELSE IF admin_response = <<>> THEN
                       reject("view_feedback", "response_missing")
                   ELSE IF len(admin_response) > 2000 THEN
                       reject("view_feedback", "response_too_long")
                   ELSE
                       /\ feedback' = repo_respond_to_feedback(feedback,
                              feedback_id, admin_response,
                              session[s].user_id, today)
                       /\ Respond("respond_to_feedback", s, "view_feedback",
                                  "responded")

\* variant: any status that was sent is taken
valid_status_any(new_status) == ~IsNone(new_status)

\* new_status in ['new', 'in_progress', 'resolved', 'closed']
valid_status(new_status) ==
    /\ ~IsNone(new_status)
    /\ Val(new_status) \in {"new", "in_progress", "resolved", "closed"}

change_feedback_status(s, feedback_id, new_status) ==
    /\ UNCHANGED <<today, clockTicks, threads, overlapped, users, userNextId, bookings,
                   bookingNextId, session>>
    /\ IF ~_is_admin(s) THEN admin_refused("change_feedback_status", s)
       ELSE /\ UNCHANGED <<tours, fetched, feedbackNextId>>
            /\ IF ~valid_status(new_status) THEN
                   /\ Respond("change_feedback_status", s, "view_feedback",
                              "status_invalid")
                   /\ UNCHANGED feedback
               ELSE
                   /\ feedback' = repo_change_status(feedback, feedback_id,
                                                      Val(new_status))
                   /\ Respond("change_feedback_status", s, "view_feedback",
                              IF IsNone(feedback_get_by_id(feedback_id))
                              THEN "status_error" ELSE "status_updated")

\* new_priority in ['low', 'normal', 'high', 'urgent']
valid_priority(new_priority) ==
    /\ ~IsNone(new_priority)
    /\ Val(new_priority) \in {"low", "normal", "high", "urgent"}

change_feedback_priority(s, feedback_id, new_priority) ==
    /\ UNCHANGED <<today, clockTicks, threads, overlapped, users, userNextId, bookings,
                   bookingNextId, session>>
    /\ IF ~_is_admin(s) THEN admin_refused("change_feedback_priority", s)
       ELSE /\ UNCHANGED <<tours, fetched, feedbackNextId>>
            /\ IF ~valid_priority(new_priority) THEN
                   /\ Respond("change_feedback_priority", s, "view_feedback",
                              "priority_invalid")
                   /\ UNCHANGED feedback
               ELSE
                   /\ feedback' = repo_change_priority(feedback, feedback_id,
                                                        Val(new_priority))
                   /\ Respond("change_feedback_priority", s, "view_feedback",
                              IF IsNone(feedback_get_by_id(feedback_id))
                              THEN "priority_error" ELSE "priority_updated")

\* variant: the page lists the catalog as it is
manage_tours_as_is(s, api_key, upstream) ==
    admin_page("manage_tours", s, "admin/manage_tours.html")

manage_tours(s, api_key, upstream) ==
    admin_tours_page("manage_tours", s, "admin/manage_tours.html",
                     api_key, upstream)

edit_tour_form(s, tour_id) ==
    /\ UNCHANGED <<today, clockTicks, threads, overlapped, users, userNextId, bookings,
                   bookingNextId, session>>
    /\ IF ~_is_admin(s) THEN admin_refused("edit_tour_form", s)
       ELSE /\ UNCHANGED <<tours, fetched, feedback, feedbackNextId>>
            /\ IF IsNone(tours_get_by_id(tour_id))
               THEN Respond("edit_tour_form", s, "manage_tours", "not_found")
               ELSE Respond("edit_tour_form", s, "admin/edit_tour.html", "")

\* the tour object is written field by field: a price that does not
\* convert leaves the new title in place, a duration that does not convert
\* leaves the new title and price in place
edit_tour(s, tour_id, form) ==
    LET i == FirstIndex(tours, tour_id)
        tour == tours[i]
        title == form_get(form.title, tour.title)
        \* float(form.get("price", tour.price) or tour.price)
        price == IF IsNone(form.price) \/ Val(form.price) = <<>>
                 THEN Some(tour.price) ELSE IntParse(Val(form.price))
        duration_days ==
            IF IsNone(form.duration_days) \/ Val(form.duration_days) = <<>>
            THEN Some(tour.duration_days)
            ELSE IntParse(Val(form.duration_days))
    IN  /\ UNCHANGED <<today, clockTicks, threads, overlapped, users, userNextId, bookings,
                       bookingNextId, session>>
        /\ IF ~_is_admin(s) THEN admin_refused("edit_tour", s)
           ELSE /\ UNCHANGED <<fetched, feedback, feedbackNextId>>
                /\ IF i = 0 THEN
                       /\ Respond("edit_tour", s, "manage_tours", "not_found")
                       /\ UNCHANGED tours
                   ELSE IF IsNone(price) THEN
                       /\ tours' = [tours EXCEPT ![i].title = title]
                       /\ Respond("edit_tour", s, "edit_tour_form",
                                  "price_invalid")
                   ELSE IF IsNone(duration_days) THEN
                       /\ tours' = [tours EXCEPT ![i].title = title,
                                                 ![i].price = Val(price)]
                       /\ Respond("edit_tour", s, "edit_tour_form",
                                  "duration_invalid")
                   ELSE
                       /\ tours' = [tours EXCEPT
                              ![i].title = title,
                              ![i].price = Val(price),
                              ![i].duration_days = Val(duration_days)]
                       /\ Respond("edit_tour", s, "manage_tours", "updated")

all_bookings(s) == admin_page("all_bookings", s, "admin/bookings.html")

users_list(s) == admin_page("users_list", s, "admin/users.html")

(***************************************************************************)
(* POST /register and POST /book handled by the threads of a threaded      *)
(* server, one store access at a time: the email check, the read of        *)
(* _next_id, the two halves of `_next_id += 1`, and the append are         *)
(* separate steps, and steps of different threads interleave.              *)
(***************************************************************************)
Threads == {"t1", "t2"}

\* the local variables of a handler; pc is the statement it has reached
Idle ==
    [pc |-> "idle", s |-> "", email |-> "", password |-> <<>>,
     user_id |-> 0, tour_id |-> 0, travel_date |-> <<>>, passengers |-> 0,
     total_price |-> 0, current_id |-> 0, loaded |-> 0]

\* a request begins; the history records whether another is under way
begin_request(t) ==
    /\ threads[t].pc = "idle"
    /\ overlapped' =
           (overlapped \/ \E u \in Threads \ {t} : threads[u].pc # "idle")

\* a step of a request under way
step_request(t, pc) ==
    /\ threads[t].pc = pc
    /\ UNCHANGED overlapped

\* variant: the counter is written back as it was read
next_id_after_unchanged(loaded) == loaded

\* self._next_id += 1, the sum that is written back
next_id_after(loaded) == loaded + 1

\* register_post from its first line to the get_by_email check, in a
\* session without a pending booking
register_post_begin(t, s, email, password, confirm_password) ==
    LET reject(flash) ==
            /\ Respond("register_post", s, "register", flash)
            /\ UNCHANGED threads
        under_way == {u \in Threads : threads[u].email # ""}
    IN  /\ begin_request(t)
        /\ IsNone(session[s].booking_data)
        /\ Len(users) + Cardinality(under_way) < MaxUsers + 1
        /\ UNCHANGED <<today, clockTicks, tours, users, userNextId,
                       bookings, bookingNextId, session, feedback,
                       feedbackNextId, fetched>>
        /\ IF password # confirm_password THEN reject("password_mismatch")
           ELSE IF password_too_short(password) THEN
               reject("password_short")
           ELSE IF ~IsNone(user_get_by_email(email)) THEN
               reject("email_taken")
           ELSE
               /\ threads' = [threads EXCEPT ![t] =
                      [Idle EXCEPT !.pc = "user_get_next_id", !.s = s,
                                   !.email = email, !.password = password]]
               /\ UNCHANGED response

\* UserRepository.get_next_id: current_id = self._next_id
user_get_next_id_read(t) ==
    /\ step_request(t, "user_get_next_id")
    /\ threads' = [threads EXCEPT ![t].current_id = userNextId,
                                  ![t].pc = "user_next_id_load"]
    /\ UNCHANGED <<today, clockTicks, tours, users, userNextId, bookings,
                   bookingNextId, session, response, feedback,
                   feedbackNextId, fetched>>

\* self._next_id += 1: the counter is read
user_get_next_id_load(t) ==
    /\ step_request(t, "user_next_id_load")
    /\ threads' = [threads EXCEPT ![t].loaded = userNextId,
                                  ![t].pc = "user_next_id_store"]
    /\ UNCHANGED <<today, clockTicks, tours, users, userNextId, bookings,
                   bookingNextId, session, response, feedback,
                   feedbackNextId, fetched>>

\* self._next_id += 1: the sum is written
user_get_next_id_store(t) ==
    /\ step_request(t, "user_next_id_store")
    /\ userNextId' = next_id_after(threads[t].loaded)
    /\ threads' = [threads EXCEPT ![t].pc = "add_user"]
    /\ UNCHANGED <<today, clockTicks, tours, users, bookings,
                   bookingNextId, session, response, feedback,
                   feedbackNextId, fetched>>

\* the User is built and appended; without booking_data the handler then
\* redirects to the login page
add_user(t) ==
    /\ step_request(t, "add_user")
    /\ users' = Append(users,
           [id |-> threads[t].current_id, email |-> threads[t].email,
            password_hash |-> generate_password_hash(threads[t].password),
            role |-> "client"])
    /\ Respond("register_post", threads[t].s, "login", "registered")
    /\ threads' = [threads EXCEPT ![t] = Idle]
    /\ UNCHANGED <<today, clockTicks, tours, userNextId, bookings,
                   bookingNextId, session, feedback, feedbackNextId,
                   fetched>>

\* book_tour of a signed-in session up to the computation of total_price,
\* for a request that passes the tour, passenger and date checks
book_tour_begin(t, s, tour_id, passengers_field, travel_date) ==
    LET tour == tours_get_by_id(tour_id)
        parsed == passengers_of(passengers_field)
        travel_date_obj == Strptime(travel_date)
        limit == max_future_date(today)
        under_way == {u \in Threads : threads[u].tour_id # 0}
    IN  /\ begin_request(t)
        /\ Len(bookings) + Cardinality(under_way) < MaxBookings
        /\ ~IsNone(tour)
        /\ ~IsNone(parsed)
        /\ passengers_in_range(Val(parsed))
        /\ ~IsNone(travel_date_obj)
        /\ ~DateLT(Val(travel_date_obj), today)
        /\ ~IsNone(limit)
        /\ ~DateLT(Val(limit), Val(travel_date_obj))
        /\ ~no_user_in_session(s)
        /\ threads' = [threads EXCEPT ![t] =
               [Idle EXCEPT !.pc = "booking_get_next_id", !.s = s,
                            !.user_id = session[s].user_id,
                            !.tour_id = tour_id,
                            !.travel_date = travel_date,
                            !.passengers = Val(parsed),
                            !.total_price =
                                book_unit_price(Val(tour)) * Val(parsed)]]
        /\ UNCHANGED <<today, clockTicks, tours, users, userNextId,
                       bookings, bookingNextId, session, response, feedback,
                       feedbackNextId, fetched>>

\* BookingRepository.get_next_id: current_id = self._next_id
booking_get_next_id_read(t) ==
    /\ step_request(t, "booking_get_next_id")
    /\ threads' = [threads EXCEPT ![t].current_id = bookingNextId,
                                  ![t].pc = "booking_next_id_load"]
    /\ UNCHANGED <<today, clockTicks, tours, users, userNextId, bookings,
                   bookingNextId, session, response, feedback,
                   feedbackNextId, fetched>>

\* self._next_id += 1: the counter is read
booking_get_next_id_load(t) ==
    /\ step_request(t, "booking_next_id_load")
    /\ threads' = [threads EXCEPT ![t].loaded = bookingNextId,
                                  ![t].pc = "booking_next_id_store"]
    /\ UNCHANGED <<today, clockTicks, tours, users, userNextId, bookings,
                   bookingNextId, session, response, feedback,
                   feedbackNextId, fetched>>

\* self._next_id += 1: the sum is written
booking_get_next_id_store(t) ==
    /\ step_request(t, "booking_next_id_store")
    /\ bookingNextId' = next_id_after(threads[t].loaded)
    /\ threads' = [threads EXCEPT ![t].pc = "add_booking"]
    /\ UNCHANGED <<today, clockTicks, tours, users, userNextId, bookings,
                   session, response, feedback, feedbackNextId, fetched>>

\* the Booking is built and appended, the confirmation page rendered
add_booking(t) ==
    /\ step_request(t, "add_booking")
    /\ bookings' = Append(bookings,
           Booking(threads[t].current_id, threads[t].tour_id,
                   threads[t].user_id, Strftime(today),
                   threads[t].travel_date, threads[t].passengers,
                   threads[t].total_price, "confirmed"))
    /\ Respond("book_tour", threads[t].s, "booking.html", "")
    /\ threads' = [threads EXCEPT ![t] = Idle]
    /\ UNCHANGED <<today, clockTicks, tours, users, userNextId,
                   bookingNextId, session, feedback, feedbackNextId,
                   fetched>>

(***************************************************************************)
(* The clock: datetime.now().date() moves to the next day.                 *)
(***************************************************************************)
Tick ==
    /\ clockTicks < MaxTicks
    /\ clockTicks' = clockTicks + 1
    /\ today' = AddDays(today, 1)
    /\ response' = NoResponse
    /\ UNCHANGED <<tours, users, userNextId, bookings, bookingNextId,
                   session, feedback, feedbackNextId, fetched, threads,
                   overlapped>>

(***************************************************************************)
(* Request inputs.                                                         *)
(***************************************************************************)
Sessions == {"s1", "s2"}

Emails == {"ann@example.com", "bob@example.com"}

GoodPassword == <<"s", "e", "c", "r", "e", "t">>
OtherPassword == <<"s", "e", "c", "r", "e", "d">>
ShortPassword == <<"s", "h", "o", "r", "t">>

TravelDates(offsets) ==
    {Strftime(AddDays(today, k)) : k \in offsets}

\* malformed travel_date fields: empty, a day that does not exist, a
\* truncated date
BadTravelDates == {<<>>, <<today.y, 2, 30>>, <<today.y, today.m>>}

PassengerFields ==
    {None, Some(<<"0">>), Some(<<"2">>), Some(<<"1", "0">>),
     Some(<<"1", "1">>), Some(<<"-", "1">>), Some(<<"x">>), Some(<<>>)}

BookingIds == 1..(MaxBookings + 1)

(***************************************************************************)
(* Initial state: the module-level singletons after import, on the day     *)
(* the process starts.                                                     *)
(***************************************************************************)
InitOver(starts, feeds) ==
    /\ today \in starts
    /\ clockTicks = 0
    /\ \E events \in feeds :
           /\ fetched = events
           /\ tours = sync_events(<<>>, events, today)
    /\ users = SeedUsers
    /\ userNextId = 2
    /\ bookings = <<>>
    /\ bookingNextId = 1
    /\ session = [s \in Sessions |-> EmptySession]
    /\ response = NoResponse
    /\ feedback = <<>>
    /\ feedbackNextId = 1
    /\ threads = [t \in Threads |-> Idle]
    /\ overlapped = FALSE

(***************************************************************************)
(* Spec: two clients on the booking and account routes, one value per      *)
(* form field.                                                             *)
(***************************************************************************)
Init == InitOver({Date(2027, 3, 10)}, {_mock_events})

Next ==
    \/ \E s \in Sessions :
            book_tour(s, 1, Some(<<"2">>), Strftime(AddDays(today, 10)))
    \/ \E s \in Sessions, booking_id \in BookingIds :
            cancel_booking(s, booking_id)
    \/ \E s \in Sessions, email \in Emails :
            login_post(s, email, Some(GoodPassword), None)
    \/ \E s \in Sessions, email \in Emails :
            register_post(s, email, Some(GoodPassword), Some(GoodPassword))
    \/ \E s \in Sessions : logout(s)
    \/ \E s \in Sessions : search(s, "", Raised, NoArgs)

Spec == Init /\ [][Next]_vars

(***************************************************************************)
(* SpecForm: one client on one day, every shape of the form fields of      *)
(* POST /book and POST /register.                                          *)
(***************************************************************************)
InitForm == InitOver({Date(2027, 3, 10)}, {_mock_events})

FormTourIds == {1, 3}
FormTravelDates == TravelDates({10}) \cup {<<>>}
FormPasswords == {None, Some(GoodPassword), Some(ShortPassword)}
FormConfirmations ==
    {None, Some(GoodPassword), Some(OtherPassword), Some(ShortPassword)}

NextForm ==
    \/ \E tour_id \in FormTourIds, passengers \in PassengerFields,
          travel_date \in FormTravelDates :
            book_tour("s1", tour_id, passengers, travel_date)
    \/ \E email \in Emails \cup {AdminEmail},
          password \in FormPasswords,
          confirm_password \in FormConfirmations :
            register_post("s1", email, password, confirm_password)
    \/ \E email \in Emails, password \in {GoodPassword, OtherPassword} :
            login_post("s1", email, Some(password), None)
    \/ logout("s1")

SpecForm == InitForm /\ [][NextForm]_vars

(***************************************************************************)
(* SpecDate: one client, travel dates around today and a year ahead, the   *)
(* clock running over a year end and into a leap day.                      *)
(***************************************************************************)
StartDates == {Date(2027, 12, 30), Date(2028, 2, 28)}

TravelOffsets == {0 - 1, 0, 365, 366, 367}

InitDate == InitOver(StartDates, {_mock_events})

DateTravelDates == TravelDates(TravelOffsets) \cup BadTravelDates

NextDate ==
    \/ \E travel_date \in DateTravelDates :
            book_tour("s1", 1, Some(<<"2">>), travel_date)
    \/ \E email \in Emails :
            register_post("s1", email, Some(GoodPassword),
                          Some(GoodPassword))
    \/ \E email \in Emails : login_post("s1", email, Some(GoodPassword), None)
    \/ logout("s1")
    \/ Tick

SpecDate == InitDate /\ [][NextDate]_vars

(***************************************************************************)
(* SpecPrice: one client, the catalog refreshed from every event source.   *)
(***************************************************************************)
ApiKeys == {"", "k3y"}

Upstreams == {Raised, Returned(<<>>), Returned(UpstreamA), Returned(UpstreamB)}

EventFeeds == {fetch_events(api_key, upstream) :
                   api_key \in ApiKeys, upstream \in Upstreams}

InitPrice == InitOver({Date(2027, 3, 10)}, EventFeeds)

NextPrice ==
    \/ \E tour_id \in 1..2 :
            book_tour("s1", tour_id, Some(<<"2">>),
                      Strftime(AddDays(today, 10)))
    \/ \E email \in Emails :
            register_post("s1", email, Some(GoodPassword),
                          Some(GoodPassword))
    \/ \E email \in Emails : login_post("s1", email, Some(GoodPassword), None)
    \/ \E api_key \in ApiKeys, upstream \in Upstreams :
            search("s1", api_key, upstream, NoArgs)

SpecPrice == InitPrice /\ [][NextPrice]_vars

(***************************************************************************)
(* SpecCal: one client, the process started on any day of a common year    *)
(* or of the first months of a leap year; bookings a few days ahead.       *)
(***************************************************************************)
CalendarDates ==
    {Date(2027, m, d) : m \in 1..12, d \in 1..31} \cup
    {Date(2028, m, d) : m \in 1..3, d \in 1..31}

CalendarStarts == {dt \in CalendarDates : ValidDate(dt.y, dt.m, dt.d)}

InitCal == InitOver(CalendarStarts, {_mock_events})

NextCal ==
    \/ \E travel_date \in TravelDates({3, 6}) :
            book_tour("s1", 1, Some(<<"2">>), travel_date)
    \/ \E booking_id \in BookingIds : cancel_booking("s1", booking_id)
    \/ login_post("s1", AdminEmail, Some(AdminPassword), None)

SpecCal == InitCal /\ [][NextCal]_vars

(***************************************************************************)
(* SpecSearch: one client searching with up to two filters at a time,      *)
(* against every event source, on two days.                                *)
(***************************************************************************)
InitSearch == InitOver({Date(2027, 3, 10)}, EventFeeds)

Locations == {None, Some(<<"r", "I">>), Some(<<"g", "e", "o">>)}
Types == {None, Some(<<"M", "O", "U", "N", "T">>), Some(<<"m", "u", "s", "i", "c">>)}
MinPrices == {None, Some(<<"0">>), Some(<<"3", "0">>), Some(<<"x">>)}
MaxPrices == {None, Some(<<"3", "0">>), Some(<<"9", "8", "0">>)}
Durations == {None, Some(<<"1">>), Some(<<"9">>)}
Keywords == {None, Some(<<"T", "R", "E">>), Some(<<"$">>)}

\* the query strings that supply at most two filters
QueryArgs ==
    {args \in [location : Locations, type : Types, min_price : MinPrices,
               max_price : MaxPrices, duration : Durations,
               keyword : Keywords] :
        Cardinality({f \in DOMAIN args : ~IsNone(args[f])}) <= 2}

NextSearch ==
    \/ \E api_key \in ApiKeys, upstream \in Upstreams, args \in QueryArgs :
            search("s1", api_key, upstream, args)
    \/ Tick

SpecSearch == InitSearch /\ [][NextSearch]_vars

(***************************************************************************)
(* SpecLogin: one client, every shape of the form of POST /login against   *)
(* the seeded admin and registered clients, some of them registered with a *)
(* pending booking.                                                        *)
(***************************************************************************)
InitLogin == InitOver({Date(2027, 3, 10)}, {_mock_events})

LoginEmails == Emails \cup {AdminEmail, "nobody@example.com"}
LoginPasswords == {GoodPassword, OtherPassword, AdminPassword}
AdminFields == {None, Some("1"), Some("0")}

NextLogin ==
    \/ \E email \in LoginEmails, admin \in AdminFields,
          password \in {Some(p) : p \in LoginPasswords} \cup {None} :
            login_post("s1", email, password, admin)
    \/ \E email \in Emails, password \in {GoodPassword, OtherPassword} :
            register_post("s1", email, Some(password), Some(password))
    \/ logout("s1")
    \/ book_tour("s1", 1, Some(<<"2">>), Strftime(AddDays(today, 10)))

SpecLogin == InitLogin /\ [][NextLogin]_vars

(***************************************************************************)
(* SpecFeedback: a client on one session writing feedback, the admin on    *)
(* another session answering it and changing status and priority, with     *)
(* well-formed and malformed form fields.                                  *)
(***************************************************************************)
InitFeedback == InitOver({Date(2027, 3, 10)}, {_mock_events})

FeedbackIds == 1..(MaxFeedback + 1)

Subjects ==
    {None, Some(<<Run(" ", 3)>>),
     Some(<<Run(" ", 1), Run("a", 200), Run("\n", 1)>>),
     Some(<<Run("a", 201)>>)}

Messages ==
    {None, Some(<<Run("\t", 1)>>), Some(<<Run("m", 2000), Run(" ", 1)>>),
     Some(<<Run("m", 2001)>>)}

Priorities == {None, Some("bogus")}

Responses ==
    {None, Some(<<Run(" ", 2)>>), Some(<<Run(" ", 1), Run("k", 2)>>),
     Some(<<Run("k", 2001)>>)}

NewStatuses == {None, Some("closed"), Some("bogus")}

NewPriorities == {None, Some("high"), Some("junk")}

NextFeedback ==
    \/ register_post("s1", "ann@example.com", Some(GoodPassword),
                     Some(GoodPassword))
    \/ login_post("s1", "ann@example.com", Some(GoodPassword), None)
    \/ login_post("s2", AdminEmail, Some(AdminPassword), Some("1"))
    \/ \E subject \in Subjects, message \in Messages,
          priority \in Priorities :
            submit_feedback("s1", subject, message, None, priority)
    \/ \E feedback_id \in FeedbackIds, admin_response \in Responses :
            respond_to_feedback("s2", feedback_id, admin_response)
    \/ \E feedback_id \in FeedbackIds, new_status \in NewStatuses :
            change_feedback_status("s2", feedback_id, new_status)
    \/ \E feedback_id \in FeedbackIds, new_priority \in NewPriorities :
            change_feedback_priority("s2", feedback_id, new_priority)
    \/ feedback_management("s2")
    \/ \E feedback_id \in FeedbackIds : view_feedback("s2", feedback_id)

SpecFeedback == InitFeedback /\ [][NextFeedback]_vars

(***************************************************************************)
(* SpecAdmin: one browser that is anonymous, a client or the admin in      *)
(* turn, requesting every admin page.                                      *)
(***************************************************************************)
InitAdmin == InitOver({Date(2027, 3, 10)}, {_mock_events})

AddForms == {TourForm(None, None, None), TourForm(None, Some(<<"x">>), None)}

EditForms ==
    {TourForm(None, None, None),
     TourForm(Some(<<"S", "k", "i">>), Some(<<"3", "0">>), Some(<<"x">>))}

EditTourIds == {1, 3}

\* one id that is stored once a record exists, one that never is
AdminFeedbackIds == {1, MaxFeedback + 1}

NextAdmin ==
    \/ register_post("s1", "ann@example.com", Some(GoodPassword),
                     Some(GoodPassword))
    \/ \E email \in {"ann@example.com", AdminEmail},
          password \in {GoodPassword, AdminPassword} :
            login_post("s1", email, Some(password), Some("1"))
    \/ logout("s1")
    \/ submit_feedback("s1", Some(<<Run("a", 1)>>), Some(<<Run("m", 1)>>),
                       None, None)
    \/ dashboard("s1", "", Raised)
    \/ add_form("s1")
    \/ \E form \in AddForms : add_tour("s1", "", Raised, form)
    \/ feedback_management("s1")
    \/ \E feedback_id \in AdminFeedbackIds : view_feedback("s1", feedback_id)
    \/ \E feedback_id \in AdminFeedbackIds :
            respond_to_feedback("s1", feedback_id, Some(<<Run("k", 2)>>))
    \/ \E feedback_id \in AdminFeedbackIds :
            change_feedback_status("s1", feedback_id, Some("closed"))
    \/ \E feedback_id \in AdminFeedbackIds :
            change_feedback_priority("s1", feedback_id, Some("high"))
    \/ manage_tours("s1", "", Raised)
    \/ \E tour_id \in EditTourIds : edit_tour_form("s1", tour_id)
    \/ \E tour_id \in EditTourIds, form \in EditForms :
            edit_tour("s1", tour_id, form)
    \/ all_bookings("s1")
    \/ users_list("s1")

SpecAdmin == InitAdmin /\ [][NextAdmin]_vars

(***************************************************************************)
(* SpecLang: one browser switching the language, with supported and        *)
(* unsupported codes, while it books, registers, signs in and out.         *)
(***************************************************************************)
InitLang == InitOver({Date(2027, 3, 10)}, {_mock_events})

Languages == {"ru", "en", "es", "de", "RU"}

NextLang ==
    \/ \E language \in Languages : set_language("s1", language)
    \/ book_tour("s1", 1, Some(<<"2">>), Strftime(AddDays(today, 10)))
    \/ \E email \in Emails :
            register_post("s1", email, Some(GoodPassword),
                          Some(GoodPassword))
    \/ \E email \in Emails : login_post("s1", email, Some(GoodPassword), None)
    \/ logout("s1")

SpecLang == InitLang /\ [][NextLang]_vars

(***************************************************************************)
(* SpecSync: the catalog synchronised against every answer of the event    *)
(* source, the empty one included, refreshed by searches and by the admin  *)
(* pages that list it, and written by the admin's add and edit forms, on   *)
(* two days.                                                               *)
(***************************************************************************)
SyncUpstreams == Upstreams \cup {Returned(UpstreamC)}

SyncFeeds ==
    {fetch_events(api_key, upstream) :
        api_key \in ApiKeys, upstream \in SyncUpstreams}

InitSync == InitOver({Date(2027, 3, 10)}, SyncFeeds)

SyncArgs == {NoArgs, [NoArgs EXCEPT !.max_price = Some(<<"3", "0">>)]}

SyncAddForm == TourForm(None, Some(<<"3", "0">>), None)

SyncEditForm == TourForm(Some(<<"S", "k", "i">>), Some(<<"7", "0">>), None)

NextSync ==
    \/ \E events \in SyncFeeds \cup {<<>>} : tours_sync_events(events)
    \/ \E api_key \in ApiKeys, upstream \in SyncUpstreams,
          args \in SyncArgs :
            search("s1", api_key, upstream, args)
    \/ login_post("s1", AdminEmail, Some(AdminPassword), Some("1"))
    \/ \E upstream \in SyncUpstreams :
            add_tour("s1", "k3y", upstream, SyncAddForm)
    \/ \E tour_id \in EditTourIds : edit_tour("s1", tour_id, SyncEditForm)
    \/ \E upstream \in SyncUpstreams : dashboard("s1", "k3y", upstream)
    \/ \E upstream \in SyncUpstreams : manage_tours("s1", "k3y", upstream)
    \/ Tick

SpecSync == InitSync /\ [][NextSync]_vars

(***************************************************************************)
(* SpecIntent: one browser stashing booking intents, with passenger counts *)
(* and travel dates at and beyond the limits and a tour id that is not in  *)
(* the catalog, over a year end, while it registers, signs in and out and  *)
(* the catalog is refreshed.                                               *)
(***************************************************************************)
InitIntent == InitOver({Date(2027, 12, 30)}, {_mock_events})

IntentTourIds == {2, 3}

IntentPassengers == {Some(<<"1", "0">>), Some(<<"1", "1">>), Some(<<"0">>)}

IntentTravelDates == TravelDates({0 - 1, 366, 367}) \cup {<<>>}

NextIntent ==
    \/ \E tour_id \in IntentTourIds, passengers \in IntentPassengers,
          travel_date \in IntentTravelDates :
            book_tour("s1", tour_id, passengers, travel_date)
    \/ register_post("s1", "ann@example.com", Some(GoodPassword),
                     Some(GoodPassword))
    \/ login_post("s1", "ann@example.com", Some(GoodPassword), None)
    \/ logout("s1")
    \/ \E upstream \in {Raised, Returned(UpstreamB)} :
            search("s1", "k3y", upstream, NoArgs)
    \/ Tick

SpecIntent == InitIntent /\ [][NextIntent]_vars

(***************************************************************************)
(* SpecRace: two server threads handling registrations and bookings of two *)
(* browsers, their store accesses interleaved.                             *)
(***************************************************************************)
InitRace == InitOver({Date(2027, 3, 10)}, {_mock_events})

\* the browser whose request a thread handles
BrowserOf(t) == IF t = "t1" THEN "s1" ELSE "s2"

NextRace ==
    \/ \E s \in Sessions :
            login_post(s, AdminEmail, Some(AdminPassword), None)
    \/ \E t \in Threads, email \in Emails :
            register_post_begin(t, BrowserOf(t), email, GoodPassword,
                                GoodPassword)
    \/ \E t \in Threads : user_get_next_id_read(t)
    \/ \E t \in Threads : user_get_next_id_load(t)
    \/ \E t \in Threads : user_get_next_id_store(t)
    \/ \E t \in Threads : add_user(t)
    \/ \E t \in Threads :
            book_tour_begin(t, BrowserOf(t), 1, Some(<<"2">>),
                            Strftime(AddDays(today, 10)))
    \/ \E t \in Threads : booking_get_next_id_read(t)
    \/ \E t \in Threads : booking_get_next_id_load(t)
    \/ \E t \in Threads : booking_get_next_id_store(t)
    \/ \E t \in Threads : add_booking(t)

SpecRace == InitRace /\ [][NextRace]_vars

(***************************************************************************)
(* Vocabulary of the statements below.  It is written out independently    *)
(* of the handlers: day numbers instead of field-wise date comparison, the *)
(* decimal numerals instead of the integer parser.                         *)
(***************************************************************************)
DaysBeforeMonth == <<0, 31, 59, 90, 120, 151, 181, 212, 243, 273, 304, 334>>

\* proleptic Gregorian ordinal of the day y-m-d
DayNum(y, m, d) ==
    365 * (y - 1) + ((y - 1) \div 4) - ((y - 1) \div 100)
    + ((y - 1) \div 400)
    + DaysBeforeMonth[m]
    + (IF m > 2 /\ y % 4 = 0 /\ (y % 100 # 0 \/ y % 400 = 0) THEN 1 ELSE 0)
    + d

TodayNum == DayNum(today.y, today.m, today.d)

\* day number of a stored "YYYY-MM-DD" text
TextNum(text) == DayNum(text[1], text[2], text[3])

Numerals ==
    << <<"1">>, <<"2">>, <<"3">>, <<"4">>, <<"5">>, <<"6">>, <<"7">>,
       <<"8">>, <<"9">>, <<"1", "0">> >>

\* the passenger count a form field stands for: the numeral's value, 1 for
\* a field left out of the form (the handler's default), 0 for anything else
PassengerCount(field) ==
    IF IsNone(field) THEN 1
    ELSE IF \E n \in 1..10 : Numerals[n] = Val(field)
    THEN CHOOSE n \in 1..10 : Numerals[n] = Val(field)
    ELSE 0

Created == Len(bookings') = Len(bookings) + 1
NewBooking == bookings'[Len(bookings')]

(***************************************************************************)
(* C1.  POST /book/{id} on an existing tour creates a Booking or stashes a *)
(* pending intent only if the passengers value (the field, or the default  *)
(* 1 of a field left out) is an integer p with 1 <= p <= 10, and then with *)
(* that p; for 0, 11, a negative or a non-numeric value the request is     *)
(* answered by a redirect to the tour page with the booking store and the  *)
(* session unchanged.                                                      *)
(***************************************************************************)
C1_PassengersGuard ==
    [][response'.route = "book_tour" =>
        \A travel_date \in FormTravelDates, tour_id \in FormTourIds,
           field \in PassengerFields :
          LET s == response'.sess IN
            (book_tour(s, tour_id, field, travel_date)
             /\ \E i \in 1..Len(tours) : tours[i].id = tour_id) =>
                IF PassengerCount(field) = 0
                THEN /\ bookings' = bookings
                     /\ session' = session
                     /\ response'.location = "tour_detail"
                ELSE /\ Created => NewBooking.passengers = PassengerCount(field)
                     /\ Len(bookings') \in {Len(bookings), Len(bookings) + 1}
                     /\ session'[s].booking_data # session[s].booking_data =>
                            Val(session'[s].booking_data).passengers
                                = PassengerCount(field)]_vars

\* a request with passengers out of range was turned away while the store
\* held a booking
C1_Witness ==
    /\ response.route = "book_tour"
    /\ response.flash = "passengers_range"
    /\ Len(bookings) >= 1

(***************************************************************************)
(* C10.  A POST /register carrying a password that is rejected (password   *)
(* differs from confirm_password, password shorter than 6 characters, or   *)
(* email already registered) redirects to /register and leaves the user    *)
(* store, the booking store and the session unchanged.                     *)
(***************************************************************************)
C10_Rejected(email, password, confirm_password) ==
    /\ ~IsNone(password)
    /\ \/ password # confirm_password
       \/ Len(Val(password)) <= 5
       \/ \E i \in 1..Len(users) : users[i].email = email

C10_RejectedRegistration ==
    [][response'.route = "register_post" =>
        \A email \in Emails \cup {AdminEmail}, password \in FormPasswords,
           confirm_password \in FormConfirmations :
          LET s == response'.sess IN
            (register_post(s, email, password, confirm_password)
             /\ C10_Rejected(email, password, confirm_password)) =>
                /\ response'.location = "register"
                /\ users' = users
                /\ userNextId' = userNextId
                /\ bookings' = bookings
                /\ session' = session]_vars

\* a mismatching confirmation was turned away in a session holding a
\* pending booking
C10_Witness ==
    /\ response.route = "register_post"
    /\ response.flash = "password_mismatch"
    /\ \E s \in Sessions : ~IsNone(session[s].booking_data)

(***************************************************************************)
(* C2 as stated.  A Booking is created, on either path, only if            *)
(* today <= travel date <= today + 365 days.                               *)
(***************************************************************************)
C2_Within365Days ==
    [][Created =>
        (TextNum(NewBooking.travel_date) - TodayNum) \in 0..365]_vars

(***************************************************************************)
(* C2 as amended.  A Booking is created, on either path, only if           *)
(* today <= travel date <= the same month and day of the next year, which  *)
(* is today + 365 days, or today + 366 days when a 29 February lies in     *)
(* between; on a 29 February no Booking is created.                        *)
(***************************************************************************)
C2_WithinOneYear ==
    [][Created =>
        /\ ~(today.m = 2 /\ today.d = 29)
        /\ (TextNum(NewBooking.travel_date) - TodayNum) \in
               0..(DayNum(today.y + 1, today.m, today.d) - TodayNum)]_vars

\* bookings made for the last admissible day, on the direct and the deferred
\* path, one of them 366 days ahead
C2_Witness ==
    /\ \E i \in 1..Len(bookings) :
           TextNum(bookings[i].travel_date)
               - TextNum(bookings[i].booking_date) = 366
    /\ response.flash = "registered_and_booked"

(***************************************************************************)
(* C4.  An unauthenticated POST /book/{id} with a valid travel date        *)
(* (today <= date <= today + 365 days) and passengers = p redirects to     *)
(* /register and creates no Booking; a registration completed immediately  *)
(* afterwards in the same session creates exactly one Booking, with        *)
(* passengers = p, status "confirmed", tour_id = id and user_id = the id   *)
(* of the new user.                                                        *)
(***************************************************************************)
C4_ValidTravelDate(text) ==
    /\ Len(text) = 3
    /\ ValidDate(text[1], text[2], text[3])
    /\ (TextNum(text) - TodayNum) \in 0..365

C4_DeferredBooking ==
    [][/\ response'.route = "book_tour" =>
            \A travel_date \in DateTravelDates :
              LET s == response'.sess IN
                (/\ book_tour(s, 1, Some(<<"2">>), travel_date)
                 /\ session[s].user_id = 0
                 /\ C4_ValidTravelDate(travel_date)) =>
                    /\ response'.location = "register"
                    /\ bookings' = bookings
                    /\ session'[s].booking_data =
                           Some([tour_id |-> 1, travel_date |-> travel_date,
                                 passengers |-> 2])
       /\ (/\ response.route = "book_tour"
           /\ response.location = "register"
           /\ response'.route = "register_post"
           /\ response'.sess = response.sess
           /\ Len(users') = Len(users) + 1) =>
            LET data == Val(session[response.sess].booking_data) IN
                /\ Created
                /\ NewBooking.passengers = data.passengers
                /\ NewBooking.tour_id = data.tour_id
                /\ NewBooking.status = "confirmed"
                /\ NewBooking.user_id = users'[Len(users')].id]_vars

(***************************************************************************)
(* C5.  Every Booking created, by a direct booking or by a deferred        *)
(* booking completed at registration, has total_price = unit price x       *)
(* passengers, the unit price being the tour's min_price when present,     *)
(* otherwise its max_price when present, otherwise its price; so both      *)
(* paths charge the same total for the same tour and passenger count.      *)
(***************************************************************************)
C5_UnitPrice(tour) ==
    IF tour.min_price # None THEN tour.min_price[1]
    ELSE IF tour.max_price # None THEN tour.max_price[1]
    ELSE tour.price

C5_TotalPrice ==
    [][Created =>
        LET tour == tours[CHOOSE i \in 1..Len(tours) :
                              tours[i].id = NewBooking.tour_id]
        IN  NewBooking.total_price
                = C5_UnitPrice(tour) * NewBooking.passengers]_vars

(***************************************************************************)
(* C3.  For two distinct users A and B and a booking owned by A, a         *)
(* POST /booking/{id}/cancel in B's session is rejected and leaves the     *)
(* booking and the rest of the booking store unchanged, whatever happened  *)
(* before.                                                                 *)
(***************************************************************************)
C3_OwnerOnly ==
    [][response'.route = "cancel_booking" =>
        \A booking_id \in BookingIds :
          LET s == response'.sess IN
            (/\ cancel_booking(s, booking_id)
             /\ session[s].user_id # 0
             /\ \E i \in 1..Len(bookings) :
                    /\ bookings[i].id = booking_id
                    /\ bookings[i].user_id # session[s].user_id) =>
                /\ response'.flash # "cancelled"
                /\ bookings' = bookings
                /\ bookingNextId' = bookingNextId]_vars

\* a logged-in client was refused the cancellation of a confirmed booking
\* of another registered user
C3_Witness ==
    /\ response.route = "cancel_booking"
    /\ response.flash = "not_owner"
    /\ \E i \in 1..Len(bookings) :
           /\ bookings[i].status = "confirmed"
           /\ bookings[i].user_id # session[response.sess].user_id
           /\ \E j \in 1..Len(users) :
                  users[j].id = session[response.sess].user_id

(***************************************************************************)
(* C6.  In every state each Booking's status is "confirmed" or             *)
(* "cancelled"; the only change ever made to a stored Booking is           *)
(* confirmed -> cancelled, and no Booking is ever removed.                 *)
(***************************************************************************)
C6_StatusLifecycle ==
    /\ [](\A i \in 1..Len(bookings) :
              bookings[i].status \in {"confirmed", "cancelled"})
    /\ [][/\ Len(bookings') >= Len(bookings)
          /\ \A i \in 1..Len(bookings) :
                 \/ bookings'[i] = bookings[i]
                 \/ /\ bookings[i].status = "confirmed"
                    /\ bookings'[i] = [bookings[i] EXCEPT
                                           !.status = "cancelled"]]_vars

\* a cancelled booking is kept next to a confirmed one
C6_Witness ==
    /\ \E i \in 1..Len(bookings) : bookings[i].status = "cancelled"
    /\ \E i \in 1..Len(bookings) : bookings[i].status = "confirmed"

(***************************************************************************)
(* C7.  A cancel request by the owner for a booking that is already        *)
(* cancelled leaves the booking store exactly as it was.                   *)
(***************************************************************************)
C7_CancelCancelled ==
    [][response'.route = "cancel_booking" =>
        \A booking_id \in BookingIds :
          LET s == response'.sess IN
            (/\ cancel_booking(s, booking_id)
             /\ \E i \in 1..Len(bookings) :
                    /\ bookings[i].id = booking_id
                    /\ bookings[i].user_id = session[s].user_id
                    /\ bookings[i].status = "cancelled") =>
                /\ bookings' = bookings
                /\ bookingNextId' = bookingNextId]_vars

\* the owner's cancel request was answered with success while every booking
\* of the store, two of them, is cancelled
C7_Witness ==
    /\ response.route = "cancel_booking"
    /\ response.flash = "cancelled"
    /\ Len(bookings) = 2
    /\ \A i \in 1..Len(bookings) :
           /\ bookings[i].status = "cancelled"
           /\ bookings[i].user_id = session[response.sess].user_id

(***************************************************************************)
(* C8.  Whatever the date, POST /booking/{id}/cancel never sets a status   *)
(* to "cancelled" when the booking's travel date is on or before           *)
(* today + 3 calendar days.                                                *)
(***************************************************************************)
C8_NoLateCancel ==
    [][response'.route = "cancel_booking" =>
        /\ \A booking_id \in BookingIds :
               (/\ cancel_booking(response'.sess, booking_id)
                /\ response'.flash = "cancelled") =>
                   \E i \in 1..Len(bookings) :
                       /\ bookings[i].id = booking_id
                       /\ TextNum(bookings[i].travel_date) > TodayNum + 3
        /\ \A i \in 1..Len(bookings) :
               (/\ bookings[i].status # "cancelled"
                /\ bookings'[i].status = "cancelled") =>
                   TextNum(bookings[i].travel_date) > TodayNum + 3]_vars

\* the cancellation of a confirmed booking that travels in exactly three
\* days was refused
C8_Witness ==
    /\ response.route = "cancel_booking"
    /\ response.flash = "too_late"
    /\ \E i \in 1..Len(bookings) :
           /\ bookings[i].status = "confirmed"
           /\ TextNum(bookings[i].travel_date) = TodayNum + 3

(***************************************************************************)
(* C9.  For every date today the minimum-cancellable date is: same month,  *)
(* day + 3, when today's day-of-month <= 28; day 3 of the next month       *)
(* otherwise.  A cancel request by the owner for a booking whose travel    *)
(* date is strictly later than that date sets the status to "cancelled"    *)
(* and keeps the record.  (Stated for the days on which the rule names a   *)
(* day of the calendar.)                                                   *)
(***************************************************************************)
C9_RuleDate ==
    IF today.d <= 28 THEN <<today.y, today.m, today.d + 3>>
    ELSE IF today.m = 12 THEN <<today.y + 1, 1, 3>>
    ELSE <<today.y, today.m + 1, 3>>

C9_Later(a, b) ==
    \/ a[1] > b[1]
    \/ a[1] = b[1] /\ a[2] > b[2]
    \/ a[1] = b[1] /\ a[2] = b[2] /\ a[3] > b[3]

C9_CancelWhenLater ==
    [][response'.route = "cancel_booking" =>
        \A booking_id \in BookingIds :
          LET s == response'.sess IN
            \A i \in 1..Len(bookings) :
                (/\ cancel_booking(s, booking_id)
                 /\ bookings[i].id = booking_id
                 /\ bookings[i].user_id = session[s].user_id
                 /\ ValidDate(C9_RuleDate[1], C9_RuleDate[2], C9_RuleDate[3])
                 /\ C9_Later(bookings[i].travel_date, C9_RuleDate)) =>
                    /\ response'.flash = "cancelled"
                    /\ bookings' = [bookings EXCEPT
                                        ![i].status = "cancelled"]]_vars

(***************************************************************************)
(* C11.  Starting from the seeded admin account, after any sequence of     *)
(* requests handled one at a time no two records of the user store share   *)
(* an email and no two share an id.                                        *)
(***************************************************************************)
C11_UniqueUsers ==
    \A i, j \in 1..Len(users) :
        i # j => /\ users[i].email # users[j].email
                 /\ users[i].id # users[j].id

\* an account was registered and a second registration with its email was
\* turned down
C11_Witness ==
    /\ Len(users) = 2
    /\ response.route = "register_post"
    /\ response.flash = "email_taken"

(***************************************************************************)
(* C19.  POST /login carrying an email and a password writes the session   *)
(* identity (user_id, email, role of the stored user) exactly when a user  *)
(* with that email is stored and the password is the one the user          *)
(* registered with; it then redirects to /admin/ exactly when admin=1 was  *)
(* sent and the user's role is 'admin', and to the home page otherwise.    *)
(* With any other credentials it redirects to /login and leaves the        *)
(* session as it was.                                                      *)
(***************************************************************************)
C19_Account(email, password) ==
    {i \in 1..Len(users) :
        /\ users[i].email = email
        /\ users[i].password_hash = generate_password_hash(password)}

C19_Login ==
    [][response'.route = "login_post" =>
        \A email \in LoginEmails, password \in LoginPasswords,
           admin \in AdminFields :
            login_post("s1", email, Some(password), admin) =>
                LET account == C19_Account(email, password)
                IN  IF account # {} THEN
                        \E i \in account :
                            /\ session'["s1"] =
                                   [session["s1"] EXCEPT
                                       !.user_id = users[i].id,
                                       !.email = email,
                                       !.role = users[i].role]
                            /\ response'.location =
                                   IF admin = <<"1">> /\ users[i].role = "admin"
                                   THEN "admin_dashboard" ELSE "home"
                    ELSE /\ response'.location = "login"
                         /\ session' = session]_vars

\* the admin signed in with admin=1 and was sent to the dashboard
C19_Witness ==
    /\ response.route = "login_post"
    /\ response.location = "admin_dashboard"
    /\ session["s1"].role = "admin"
    /\ Len(users) > 1

(***************************************************************************)
(* C18.  fetch_events never fails and never returns an empty list: without *)
(* an API key, when the request or the parsing of its payload raises, or   *)
(* when the upstream carries no events, the list it returns is the static  *)
(* fallback list, and the page is rendered.                                *)
(***************************************************************************)
C18_FetchEvents ==
    [][(response'.route = "search" /\ response'.query = NoQuery) =>
        \A api_key \in ApiKeys, upstream \in Upstreams :
            search("s1", api_key, upstream, NoArgs) =>
                /\ response'.location = "search.html"
                /\ fetched' # <<>>
                /\ (api_key = "" \/ upstream.raised
                                 \/ Len(upstream.events) = 0)
                       => fetched' = _mock_events
                /\ (api_key # "" /\ ~upstream.raised
                                 /\ Len(upstream.events) > 0)
                       => fetched' = upstream.events]_vars

\* a search on the second day was answered from the fallback list
C18_Witness ==
    /\ response.route = "search"
    /\ response.query = NoQuery
    /\ fetched = _mock_events
    /\ \E i \in 1..Len(tours) : tours[i].external_id = "ALTAI2026BEL"
    /\ clockTicks > 0

(***************************************************************************)
(* C16.  A search without filters never lists nothing when the event       *)
(* source returned events, not even when every event starts earlier than   *)
(* today + 30 days, so that the lead-time filter would drop all of them.   *)
(***************************************************************************)
C16_NeverEmpty ==
    (response.route = "search" /\ response.query = NoQuery
                               /\ Len(fetched) > 0)
        => Len(response.tours) > 0

\* an unfiltered search over events that all start too soon
C16_Witness ==
    /\ response.route = "search"
    /\ response.query = NoQuery
    /\ Len(fetched) > 0
    /\ \A i \in 1..Len(fetched) :
           /\ fetched[i].start_date # <<>>
           /\ TextNum(fetched[i].start_date) < TodayNum + 30
    /\ Len(response.tours) = Len(fetched)

(***************************************************************************)
(* C17.  search(location, type, min_price, max_price, duration, keyword)   *)
(* returns, in catalog order, exactly the tours of the just-refreshed      *)
(* catalog that pass every filter supplied: location occurs in city or     *)
(* country, letters compared without case; type is the same text without   *)
(* case; min_price <= price <= max_price; duration_days = duration;        *)
(* keyword occurs in title or description, without case.  Every tour of    *)
(* the catalog has a price: an event without price ranges gives price 0.   *)
(***************************************************************************)
C17_SameLetter(a, b) ==
    a = b \/ \E k \in 1..Len(Capitals) : {a, b} = {Capitals[k], Smalls[k]}

C17_Occurs(needle, hay) ==
    \E i \in 0..(Len(hay) - Len(needle)) :
        \A j \in 1..Len(needle) : C17_SameLetter(needle[j], hay[i + j])

C17_Matches(t, q) ==
    /\ q.location # <<>> =>
           C17_Occurs(q.location, t.city) \/ C17_Occurs(q.location, t.country)
    /\ q.type # <<>> =>
           /\ Len(q.type) = Len(t.type)
           /\ C17_Occurs(q.type, t.type)
    /\ q.min_price # <<>> => t.price >= q.min_price[1]
    /\ q.max_price # <<>> => t.price <= q.max_price[1]
    /\ q.duration # <<>> => t.duration_days = q.duration[1]
    /\ q.keyword # <<>> =>
           C17_Occurs(q.keyword, t.title)
               \/ C17_Occurs(q.keyword, t.description)

C17_SearchResult ==
    response.route = "search" =>
        /\ \A i \in 1..Len(response.tours) :
               C17_Matches(response.tours[i], response.query)
        /\ \E pick \in SUBSET (1..Len(tours)) :
               /\ \A i \in 1..Len(tours) :
                      i \in pick <=> C17_Matches(tours[i], response.query)
               /\ Len(response.tours) = Cardinality(pick)
               /\ \A i \in pick :
                      response.tours[Cardinality({j \in pick : j <= i})]
                          = tours[i]

\* a search with two filters, one of them the upper price bound met with
\* equality, that lists some tours of the catalog and leaves others out
C17_Witness ==
    /\ response.route = "search"
    /\ response.query.max_price # <<>>
    /\ response.query.keyword # <<>>
    /\ Len(response.tours) > 0
    /\ Len(response.tours) < Len(tours)
    /\ \E i \in 1..Len(response.tours) :
           response.tours[i].price = response.query.max_price[1]

(***************************************************************************)
(* Vocabulary of the feedback statements: the part of a form field between *)
(* its first and its last character that is not whitespace, and the number *)
(* of characters in it.                                                    *)
(***************************************************************************)
Blank(run) == run.ch = " " \/ run.ch = "\t" \/ run.ch = "\n" \/ run.n = 0

FieldText(field) == IF field = <<>> THEN <<>> ELSE field[1]

IsTrimOf(core, text) ==
    \/ core = <<>> /\ \A j \in 1..Len(text) : Blank(text[j])
    \/ \E lo, hi \in 1..Len(text) :
           /\ lo <= hi
           /\ ~Blank(text[lo])
           /\ ~Blank(text[hi])
           /\ \A j \in 1..Len(text) : (j < lo \/ j > hi) => Blank(text[j])
           /\ core = [k \in 1..(hi - lo + 1) |-> text[lo + k - 1]]

RECURSIVE Characters(_)
Characters(text) ==
    IF text = <<>> THEN 0 ELSE text[1].n + Characters(Tail(text))

\* the number of characters of the field once trimmed
TrimmedLength(field) ==
    LET text == FieldText(field)
    IN  Characters(CHOOSE core \in {SubSeq(text, lo, hi) :
                                       lo \in 1..(Len(text) + 1),
                                       hi \in 0..Len(text)} :
                       IsTrimOf(core, text))

(***************************************************************************)
(* C20.  POST /feedback adds a Feedback record (status 'new', user_id the  *)
(* session's user, subject and message trimmed) only if the session is     *)
(* signed in and, once trimmed, the subject has 1 to 200 characters and    *)
(* the message 1 to 2000; in every other case it redirects and leaves the  *)
(* feedback store as it was.                                               *)
(***************************************************************************)
C20_SubmitFeedback ==
    [][response'.route = "submit_feedback" =>
        \A subject \in Subjects, message \in Messages,
           priority \in Priorities :
            submit_feedback("s1", subject, message, None, priority) =>
                IF /\ session["s1"].user_id # 0
                   /\ TrimmedLength(subject) \in 1..200
                   /\ TrimmedLength(message) \in 1..2000
                THEN /\ Len(feedback') = Len(feedback) + 1
                     /\ SubSeq(feedback', 1, Len(feedback)) = feedback
                     /\ LET added == feedback'[Len(feedback')]
                        IN  /\ added.status = "new"
                            /\ added.user_id = session["s1"].user_id
                            /\ IsTrimOf(added.subject, FieldText(subject))
                            /\ IsTrimOf(added.message, FieldText(message))
                ELSE /\ feedback' = feedback
                     /\ feedbackNextId' = feedbackNextId
                     /\ response'.location \in {"login", "feedback_form"}
           ]_vars

\* a record with a subject of exactly 200 characters was stored
C20_Witness ==
    /\ response.route = "submit_feedback"
    /\ response.flash = "sent"
    /\ Len(feedback) > 0
    /\ Characters(feedback[Len(feedback)].subject) = 200
    /\ Characters(feedback[Len(feedback)].message) = 2000

(***************************************************************************)
(* C14.  Every Feedback record stored through POST /feedback has a         *)
(* priority in {low, normal, high, urgent}: a submitted priority that is   *)
(* absent or outside the set is stored as 'normal'.                        *)
(***************************************************************************)
C14_PriorityInSet ==
    \A i \in 1..Len(feedback) :
        feedback[i].priority \in {"low", "normal", "high", "urgent"}

(***************************************************************************)
(* C13.  POST /admin/feedback/{id}/status with a status that is absent or  *)
(* outside {new, in_progress, resolved, closed} is turned down and leaves  *)
(* the feedback store as it was; the status of every stored record is      *)
(* always in that set.                                                     *)
(***************************************************************************)
C13_Statuses == {"new", "in_progress", "resolved", "closed"}

C13_StatusGuard ==
    /\ [](\A i \in 1..Len(feedback) : feedback[i].status \in C13_Statuses)
    /\ [][response'.route = "change_feedback_status" =>
            \A feedback_id \in FeedbackIds, new_status \in NewStatuses :
                (/\ \A known \in C13_Statuses : new_status # <<known>>
                 /\ change_feedback_status("s2", feedback_id, new_status))
                    => /\ feedback' = feedback
                       /\ response'.flash # "status_updated"]_vars

\* the admin sent a status outside the set for a stored record
C13_Witness ==
    /\ response.route = "change_feedback_status"
    /\ response.flash = "status_invalid"
    /\ Len(feedback) > 0

C12_AdminRoutes ==
    {"dashboard", "add_form", "add_tour", "feedback_management",
     "view_feedback", "respond_to_feedback", "change_feedback_status",
     "change_feedback_priority", "manage_tours", "edit_tour_form",
     "edit_tour", "all_bookings", "users_list"}

C12_AdminOnly ==
    [][(/\ response'.route \in C12_AdminRoutes
        /\ session[response'.sess].role # "admin") =>
            /\ response'.location = "login"
            /\ tours' = tours
            /\ feedback' = feedback /\ feedbackNextId' = feedbackNextId
            /\ users' = users /\ userNextId' = userNextId
            /\ bookings' = bookings /\ bookingNextId' = bookingNextId]_vars

\* a signed-in client asked for an admin page while the stores held a
\* feedback record and a tour the admin had added
C12_Witness ==
    /\ response.route \in C12_AdminRoutes
    /\ response.location = "login"
    /\ session["s1"].role = "client"
    /\ Len(feedback) > 0
    /\ Len(tours) > 2

(***************************************************************************)
(* C21.  After GET /logout, whatever the session held before, the session  *)
(* holds no user_id, no email, no role and no pending booking intent; and  *)
(* a registration made in a session that holds no pending intent creates   *)
(* no Booking, so the registration that follows a logout creates none.     *)
(***************************************************************************)
C21_Logout ==
    [][/\ response'.route = "logout" =>
            LET after == session'[response'.sess]
            IN  /\ after.user_id = 0
                /\ after.email = ""
                /\ after.role = ""
                /\ after.booking_data = <<>>
       /\ (/\ response'.route = "register_post"
           /\ session[response'.sess].booking_data = <<>>) =>
               /\ bookings' = bookings
               /\ bookingNextId' = bookingNextId
       /\ (/\ response.route = "logout"
           /\ response'.route = "register_post"
           /\ response'.sess = response.sess) =>
               bookings' = bookings]_vars

\* a browser that had stashed an intent and signed in was logged out, after
\* a deferred booking had been made
C21_Witness ==
    /\ response.route = "logout"
    /\ session[response.sess] = EmptySession
    /\ Len(bookings) > 0
    /\ Len(users) = 3

(***************************************************************************)
(* C22.  GET /set_language/{lang} sets the session's language to lang when *)
(* lang is one of ru, en, es and leaves the other session fields as they   *)
(* were; for any other value it leaves the whole session as it was.  In    *)
(* both cases it answers with a redirect and writes to no store.           *)
(***************************************************************************)
C22_SetLanguage ==
    [][response'.route = "set_language" =>
        \A language \in Languages :
            set_language("s1", language) =>
                /\ IF language = "ru" \/ language = "en" \/ language = "es"
                   THEN /\ session'["s1"].language = language
                        /\ session'["s1"].user_id = session["s1"].user_id
                        /\ session'["s1"].email = session["s1"].email
                        /\ session'["s1"].role = session["s1"].role
                        /\ session'["s1"].booking_data
                               = session["s1"].booking_data
                        /\ session'["s2"] = session["s2"]
                   ELSE session' = session
                /\ response'.location = "referrer_or_home"
                /\ tours' = tours /\ fetched' = fetched
                /\ users' = users /\ userNextId' = userNextId
                /\ bookings' = bookings /\ bookingNextId' = bookingNextId
                /\ feedback' = feedback
                /\ feedbackNextId' = feedbackNextId]_vars

\* a signed-in browser with Spanish selected asked for a language and still
\* has Spanish selected
C22_Witness ==
    /\ response.route = "set_language"
    /\ session["s1"].language = "es"
    /\ session["s1"].user_id # 0
    /\ Len(bookings) > 0

(***************************************************************************)
(* C23.  Every POST /register that creates a user in a session holding a   *)
(* pending booking intent consumes the intent: afterwards the session no   *)
(* longer holds booking_data, and when the travel date is within bounds on *)
(* the day of the registration a Booking for the new user is created; so   *)
(* the intent cannot produce a Booking at a later registration.            *)
(***************************************************************************)
C23_IntentConsumed ==
    [][(/\ response'.route = "register_post"
        /\ Len(users') = Len(users) + 1
        /\ session[response'.sess].booking_data # <<>>) =>
            LET s == response'.sess
                data == session[s].booking_data[1]
                ahead == TextNum(data.travel_date) - TodayNum
            IN  /\ session'[s].booking_data = <<>>
                /\ (/\ ~(today.m = 2 /\ today.d = 29)
                    /\ ahead >= 0
                    /\ ahead <= DayNum(today.y + 1, today.m, today.d)
                                    - TodayNum) =>
                        /\ Created
                        /\ NewBooking.user_id = users'[Len(users')].id
                        /\ NewBooking.tour_id = data.tour_id]_vars

(***************************************************************************)
(* Vocabulary of the catalog statements: whether a start_date text names a *)
(* day of the calendar, and the tours of a list that are ready on the      *)
(* current day.                                                            *)
(***************************************************************************)
C26_IsDay(text) ==
    /\ Len(text) = 3
    /\ text[2] \in 1..12
    /\ text[3] >= 1
    /\ DayNum(text[1], text[2], text[3])
           < (IF text[2] = 12 THEN DayNum(text[1] + 1, 1, 1)
                              ELSE DayNum(text[1], text[2] + 1, 1))

C26_Ready(tour) ==
    \/ tour.start_date = <<>>
    \/ ~C26_IsDay(tour.start_date)
    \/ TextNum(tour.start_date) >= TodayNum + 30

\* the members of ts that are ready, in the order of ts; all of ts when
\* none is
C26_Selection(ts) ==
    LET ready == {i \in 1..Len(ts) : C26_Ready(ts[i])}
        pick == IF ready = {} THEN 1..Len(ts) ELSE ready
        nth(k) == CHOOSE i \in pick : Cardinality({j \in pick : j <= i}) = k
    IN  [k \in 1..Cardinality(pick) |-> ts[nth(k)]]

(***************************************************************************)
(* C26.  _filter_future_ready returns, in input order, exactly the tours   *)
(* whose start_date is absent, unparseable, or on or after today + 30      *)
(* days; when that selection would be empty it returns the input list      *)
(* unchanged, so its result is empty only for an empty input.              *)
(***************************************************************************)
C26_FilterFutureReady ==
    \A events \in SyncFeeds \cup {<<>>} :
        LET ts == _map_events(events)
            result == _filter_future_ready(ts, today)
        IN  /\ result = C26_Selection(ts)
            /\ result = <<>> <=> ts = <<>>
            /\ (fetched = events /\ response.route \in {"sync_events", "search"}
                                  /\ events # <<>>) => tours = result

\* on the second day the catalog built from the events around the lead time
\* keeps the one without a calendar date and the one 30 days ahead, and has
\* dropped the rest
C26_Witness ==
    /\ clockTicks = 1
    /\ fetched = UpstreamC
    /\ response.route = "sync_events"
    /\ Len(tours) = 2
    /\ tours[1].external_id = "TM-BADDATE"
    /\ tours[2].external_id = "TM-LATER"

(***************************************************************************)
(* C24.  sync_events replaces the whole tour list by the mapped and        *)
(* filtered answer of the event source whenever the answer holds at least  *)
(* one event, and leaves the list as it was when the answer holds none;    *)
(* every search performs such a refresh first and filters the refreshed    *)
(* list.                                                                   *)
(***************************************************************************)
C24_SyncEvents ==
    [][/\ response'.route = "sync_events" =>
            IF Len(fetched') > 0
            THEN tours' = C26_Selection(_map_events(fetched'))
            ELSE tours' = tours
       /\ response'.route = "search" =>
            /\ Len(fetched') > 0
            /\ tours' = C26_Selection(_map_events(fetched'))
            /\ \A i \in 1..Len(response'.tours) :
                   \E k \in 1..Len(tours') : response'.tours[i] = tours'[k]
            /\ response'.query = NoQuery => response'.tours = tours']_vars

\* the source answered with no event and the catalog of two tours built the
\* day before is still in place
C24_Witness ==
    /\ response.route = "sync_events"
    /\ fetched = <<>>
    /\ clockTicks = 1
    /\ Len(tours) = 3
    /\ tours[1].external_id = "TM-EDGE"

(***************************************************************************)
(* C25.  The catalog is rebuilt wholesale by every search call: after a    *)
(* search, a dashboard load or a tour-management load, each tour of the    *)
(* catalog is an event of the source with that event's name, price and     *)
(* duration, so neither a tour appended by POST /admin/add nor a field     *)
(* changed by POST /admin/tours/{id}/edit is still there; POST /admin/add  *)
(* itself leaves no tour added earlier next to the one it appends.         *)
(***************************************************************************)
C25_FromSource(tour, events) ==
    \E k \in 1..Len(events) :
        LET event == events[k]
        IN  /\ tour.external_id = event.id
            /\ tour.id = k
            /\ tour.title = event.name
            /\ tour.duration_days
                   = (IF event.duration_days = 0 THEN 1
                      ELSE event.duration_days)
            /\ tour.price =
                   (IF event.price_min \notin {<<>>, <<0>>}
                    THEN event.price_min[1]
                    ELSE IF event.price_max \notin {<<>>, <<0>>}
                    THEN event.price_max[1]
                    ELSE 0)

C25_EditsLost ==
    [][/\ (/\ response'.route \in {"search", "dashboard", "manage_tours"}
           /\ response'.location # "login") =>
               \A i \in 1..Len(tours') :
                   C25_FromSource(tours'[i], fetched')
       /\ (/\ response'.route = "add_tour"
           /\ response'.location = "admin_dashboard") =>
               /\ Len(tours') > 1
               /\ tours'[Len(tours')].external_id = ""
               /\ \A i \in 1..(Len(tours') - 1) :
                      C25_FromSource(tours'[i], fetched')]_vars

\* the admin has added a tour and changed the title and the price of a
\* tour of the source: the catalog that the next refresh finds
C25_Witness ==
    /\ response.route = "edit_tour"
    /\ response.flash = "updated"
    /\ session["s1"].role = "admin"
    /\ \E i \in 1..Len(tours) : tours[i].external_id = ""
    /\ \E i \in 1..Len(tours) :
           /\ tours[i].external_id # ""
           /\ tours[i].title = <<"S", "k", "i">>
           /\ tours[i].price = 70

(***************************************************************************)
(* C27.  Every Booking's tour_id names a tour that is in the catalog at    *)
(* the moment the Booking is created, on the direct and on the deferred    *)
(* path.  (That a later refresh leaves a stored Booking with a tour_id     *)
(* that names no tour, or a tour with another external_id, is the state    *)
(* C27_Witness describes.)                                                 *)
(***************************************************************************)
C27_TourAtCreation ==
    [][Created =>
        /\ \E k \in 1..Len(tours) : tours[k].id = NewBooking.tour_id
        /\ \E k \in 1..Len(tours') : tours'[k].id = NewBooking.tour_id]_vars

\* after a refresh one stored Booking names a tour id that is not in the
\* catalog, and another, charged two passengers at the price of the tour
\* ALTAI2026BEL, names the id of a tour that is a different event
C27_Witness ==
    /\ \E i \in 1..Len(bookings) :
           \A k \in 1..Len(tours) : tours[k].id # bookings[i].tour_id
    /\ \E j \in 1..Len(bookings) :
           /\ bookings[j].total_price = 2 * 1190
           /\ \E k \in 1..Len(tours) :
                  /\ tours[k].id = bookings[j].tour_id
                  /\ tours[k].external_id # "ALTAI2026BEL"

(***************************************************************************)
(* C29.  The pending booking intent of a session is written only by an     *)
(* unauthenticated POST /book/{id} that has passed the tour-exists,        *)
(* passenger-count and date checks, and writing it creates no Booking: a   *)
(* stored intent always has passengers in 1..10, and when it is stashed    *)
(* its travel_date lies between today and the same day of the next year    *)
(* and its tour_id is in the catalog.  A session holds at most one intent: *)
(* a stash replaces the one before.                                        *)
(***************************************************************************)
C29_PendingIntent ==
    /\ [](\A s \in Sessions :
              /\ Len(session[s].booking_data) <= 1
              /\ session[s].booking_data # <<>> =>
                     session[s].booking_data[1].passengers \in 1..10)
    /\ [][/\ \A s \in Sessions :
                 (/\ session'[s].booking_data # session[s].booking_data
                  /\ session'[s].booking_data # <<>>) =>
                     LET data == session'[s].booking_data[1]
                         ahead == TextNum(data.travel_date) - TodayNum
                     IN  /\ response'.route = "book_tour"
                         /\ response'.sess = s
                         /\ response'.location = "register"
                         /\ session[s].user_id = 0
                         /\ bookings' = bookings
                         /\ bookingNextId' = bookingNextId
                         /\ data.passengers \in 1..10
                         /\ ahead >= 0
                         /\ ahead <= DayNum(today.y + 1, today.m, today.d)
                                         - TodayNum
                         /\ \E k \in 1..Len(tours) :
                                tours[k].id = data.tour_id
          /\ response'.route = "book_tour" =>
                 \A tour_id \in IntentTourIds, field \in IntentPassengers,
                    travel_date \in IntentTravelDates :
                     (/\ book_tour("s1", tour_id, field, travel_date)
                      /\ response'.location = "register") =>
                         session'["s1"].booking_data =
                             << [tour_id |-> tour_id,
                                 travel_date |-> travel_date,
                                 passengers |-> PassengerCount(field)] >>
         ]_vars

\* on the second day an intent for ten passengers on the last admissible
\* day, 366 days ahead, has replaced the one stashed before, and no Booking
\* exists
C29_Witness ==
    /\ response.route = "book_tour"
    /\ response.location = "register"
    /\ clockTicks = 1
    /\ bookings = <<>>
    /\ session["s1"].booking_data # <<>>
    /\ session["s1"].booking_data[1].passengers = 10
    /\ TextNum(session["s1"].booking_data[1].travel_date) - TodayNum = 366

(***************************************************************************)
(* C30.  A session's role is 'admin' only if the session passed the        *)
(* password verification of POST /login for a user whose stored role is    *)
(* 'admin': the role becomes 'admin' at no other request, and a session    *)
(* with role 'admin' carries the id and email of a stored admin.           *)
(* Registration, with or without a pending booking intent, stores a user   *)
(* with role 'client', and the session it signs in has role 'client'.      *)
(***************************************************************************)
C30_AdminRole ==
    /\ [](\A s \in Sessions : session[s].role = "admin" =>
              \E i \in 1..Len(users) :
                  /\ users[i].role = "admin"
                  /\ users[i].id = session[s].user_id
                  /\ users[i].email = session[s].email)
    /\ [](\A i \in 1..Len(users) :
              users[i].role = "admin" => users[i].email = AdminEmail)
    /\ [][/\ \A s \in Sessions :
                 (session'[s].role = "admin" /\ session[s].role # "admin") =>
                     /\ response'.route = "login_post"
                     /\ response'.sess = s
                     /\ \E email \in LoginEmails, password \in LoginPasswords,
                           admin \in AdminFields :
                            /\ login_post(s, email, Some(password), admin)
                            /\ \E i \in C19_Account(email, password) :
                                   users[i].role = "admin"
          /\ response'.route = "register_post" =>
                 LET s == response'.sess
                 IN  /\ Len(users') > Len(users) =>
                            users'[Len(users')].role = "client"
                     /\ session'[s].role # session[s].role =>
                            /\ session'[s].role = "client"
                            /\ session[s].booking_data # <<>>
                            /\ session'[s].user_id = users'[Len(users')].id
         ]_vars

\* the admin signed in, without the admin field, in a browser that had
\* registered a client together with a pending booking
C30_Witness ==
    /\ response.route = "login_post"
    /\ response.location = "home"
    /\ session["s1"].role = "admin"
    /\ Len(users) > 1
    /\ Len(bookings) > 0
    /\ \E i \in 1..Len(bookings) : bookings[i].user_id = 2

(***************************************************************************)
(* C28.  As long as no request has begun while another was being handled,  *)
(* no two users share an id or an email and no two bookings share an id.   *)
(* (That the interleaving of the reads and writes of two requests leads to *)
(* two users with one email and one id and two bookings with one id is the *)
(* state C28_Witness describes.)                                           *)
(***************************************************************************)
C28_Unique(store) ==
    \A i, j \in 1..Len(store) : i # j => store[i].id # store[j].id

C28_Serialized ==
    ~overlapped =>
        /\ C28_Unique(users)
        /\ C28_Unique(bookings)
        /\ \A i, j \in 1..Len(users) :
               i # j => users[i].email # users[j].email

\* two registrations read the counter before either wrote it and passed
\* the email check before either appended; two bookings did the same
C28_Witness ==
    /\ \E i, j \in 1..Len(users) :
           /\ i # j
           /\ users[i].email = users[j].email
           /\ users[i].id = users[j].id
    /\ \E i, j \in 1..Len(bookings) :
           i # j /\ bookings[i].id = bookings[j].id

====
